---------------------------- MODULE Spec2Model ----------------------------
(***************************************************************************)
(* A model of hivm2: the assembly tree (src/src/asm/mod.rs), the bytecode  *)
(* ops (src/src/vm/bytecode/ops.rs), the assembly compiler                 *)
(* (src/src/asm_compiler/mod.rs) and the interpreter                       *)
(* (src/src/vm/interpreter.rs).                                            *)
(*                                                                         *)
(* Strings are sequences of one-character strings, so that joining,        *)
(* splitting, prefix tests and the byte-wise order of Rust's String are    *)
(* computed and not assumed.  A panic of the Rust code is a result record  *)
(* whose err field names it.                                               *)
(*                                                                         *)
(* The module holds several specifications, one per part of the program;   *)
(* each keeps the variables of the other parts at their idle values.       *)
(***************************************************************************)
EXTENDS Integers, Sequences, FiniteSets, TLC

VARIABLES
    \* ---- asm::Path (SpecPath)
    pmode,      \* "new": Path::new is given pSegments; "str": from_str is given pString
    pSegments,  \* the Vec<Name> handed to Path::new
    pString,    \* the &str handed to Path::from_str
    path,       \* result of Path::new(pSegments), or None
    rendered,   \* path.to_string(), or None
    parsed,     \* result of Path::from_str, or None
    \* ---- the build
    endian,     \* byte order of the host ("little" or "big"): NativeEndian
    \* ---- bytecode ops (SpecOps)
    bop,        \* the BOp handed to to_binary
    junk,       \* bytes that follow the op in the buffer the decoder reads
    bytes,      \* bop.to_binary(), or None
    decoded,    \* BOp::from_binary on bytes followed by junk, or None
    \* ---- the assembly compiler (SpecModule, SpecFn)
    searchImpl, \* which binary_search loop the standard library has
    module_stmts, \* asm::Module.stmts
    fn_body,    \* the BasicBlock of the function under construction (SpecFn)
    validated,  \* result of Module::validate, or None
    compiled,   \* result of CompileModule::compile, or None
    \* ---- the virtual machine (SpecVM)
    code,       \* Machine.code
    ip,         \* Machine.ip
    stack,      \* Machine.stack: value pointers, 0 is the null pointer
    call_stack, \* Machine.call_stack
    heap,       \* the boxes value pointers point at; a pointer i >= 1 is heap[i]
    status,     \* Idle, Running, or how execute ended
    executed,   \* the instruction the last step ran and the state it ran in, or None
    call_sites, \* for each frame of call_stack, the Call or Invoke that pushed it, or None
    symbol_table, \* Machine.symbol_table: key -> TableValue
    loads       \* the calls of load_module so far, each with what it found and how it ended

pathVars == <<pmode, pSegments, pString, path, rendered, parsed>>
opsVars == <<bop, junk, bytes, decoded>>
asmVars == <<searchImpl, module_stmts, fn_body, validated, compiled>>

vmVars == <<code, ip, stack, call_stack, heap, status, executed, call_sites>>

loadVars == <<symbol_table, loads>>

vars == <<pathVars, endian, opsVars, asmVars, vmVars, loadVars>>

\* What the actions of one part leave alone
notPath == <<endian, opsVars, asmVars, vmVars, loadVars>>
notOps  == <<endian, pathVars, asmVars, vmVars, loadVars>>
notAsm  == <<endian, pathVars, opsVars, vmVars, loadVars>>
notVm   == <<endian, pathVars, opsVars, asmVars, loadVars>>
notMachine == <<endian, pathVars, opsVars, asmVars>>

None == [kind |-> "none"]

----------------------------------------------------------------------------
(* Strings *)

\* All sequences over S of length at most n.
SeqsUpTo(S, n) == UNION {[1..k -> S] : k \in 0..n}

StartsWith(s, c) == Len(s) > 0 /\ s[1] = c

RECURSIVE Join(_, _)
\* [String]::join(sep)
Join(segments, sep) ==
    IF Len(segments) = 0 THEN <<>>
    ELSE IF Len(segments) = 1 THEN segments[1]
    ELSE segments[1] \o <<sep>> \o Join(Tail(segments), sep)

RECURSIVE SplitFrom(_, _, _)
\* str::split(sep), scanning s with the current piece in cur: a separator
\* closes the piece, the end of the string closes the last one (so the
\* empty string has one empty piece).
SplitFrom(s, sep, cur) ==
    IF Len(s) = 0 THEN <<cur>>
    ELSE IF s[1] = sep THEN <<cur>> \o SplitFrom(Tail(s), sep, <<>>)
    ELSE SplitFrom(Tail(s), sep, Append(cur, s[1]))

Split(s, sep) == SplitFrom(s, sep, <<>>)

----------------------------------------------------------------------------
(* asm::Path *)

PathOk(segments) == [kind |-> "ok", segments |-> segments]
PathErr(what)    == [kind |-> "err", err |-> "InvalidSegment", found |-> what]

RECURSIVE FrontCheck(_)
\* The loop of Path::new over the segments before the last: the first
\* segment that starts with a sigil ends it with its error.
FrontCheck(front) ==
    IF Len(front) = 0 THEN ""
    ELSE IF StartsWith(front[1], "@") THEN "constant"
    ELSE IF StartsWith(front[1], "$") THEN "static"
    ELSE FrontCheck(Tail(front))

PathNewSkipsFirst(segments) ==
    LET len == Len(segments)
        bad == IF len > 1 THEN FrontCheck(SubSeq(segments, 2, len - 1)) ELSE ""
    IN  IF bad # "" THEN PathErr(bad) ELSE PathOk(segments)

PathNew(segments) ==
    LET len == Len(segments)
        bad == IF len > 1 THEN FrontCheck(SubSeq(segments, 1, len - 1)) ELSE ""
    IN  IF bad # "" THEN PathErr(bad) ELSE PathOk(segments)

PathFromStr(s) == PathNew(Split(s, "."))

PathToString(p) == Join(p.segments, ".")

\* self.segments.last().unwrap().starts_with(sigil): unwrap panics on a
\* Path without segments.
EndsWith(p, sigil) ==
    IF Len(p.segments) = 0 THEN [kind |-> "panic", err |-> "UnwrapNone"]
    ELSE [kind |-> "ok", value |-> StartsWith(p.segments[Len(p.segments)], sigil)]

ends_with_const(p)  == EndsWith(p, "@")
ends_with_static(p) == EndsWith(p, "$")

----------------------------------------------------------------------------
(* vm::bytecode::util: host-endian fixed-width integers *)

RECURSIVE LittleEndian(_, _)
\* The n bytes of v, least significant first.
LittleEndian(v, n) ==
    IF n = 0 THEN <<>> ELSE <<v % 256>> \o LittleEndian(v \div 256, n - 1)

Reverse(s) == [i \in 1..Len(s) |-> s[Len(s) + 1 - i]]

RECURSIVE FromLittleEndian(_)
FromLittleEndian(bs) ==
    IF Len(bs) = 0 THEN 0 ELSE bs[1] + 256 * FromLittleEndian(Tail(bs))

\* write_u16::<NativeEndian>, write_u64::<NativeEndian>, write_u8
HostBytes(v, n) ==
    IF endian = "little" THEN LittleEndian(v, n) ELSE Reverse(LittleEndian(v, n))

write_addr(v)  == HostBytes(v, 8)
write_local(v) == HostBytes(v, 2)
write_hu16(v)  == HostBytes(v, 2)
write_hu8(v)   == HostBytes(v, 1)

ReadOk(value, pos) == [kind |-> "ok", value |-> value, pos |-> pos]
ReadEof == [kind |-> "panic", err |-> "UnexpectedEof"]

\* read_uN::<NativeEndian>().unwrap() at cursor position pos (0-based): the
\* n bytes there in host order, or a panic when fewer are left.
HostRead(buf, pos, n) ==
    IF pos + n > Len(buf) THEN ReadEof
    ELSE LET bs == SubSeq(buf, pos + 1, pos + n)
         IN  ReadOk(FromLittleEndian(IF endian = "little" THEN bs ELSE Reverse(bs)), pos + n)

read_hu8(buf, pos)   == HostRead(buf, pos, 1)
read_hu16(buf, pos)  == HostRead(buf, pos, 2)
read_local(buf, pos) == HostRead(buf, pos, 2)
read_addr(buf, pos)  == HostRead(buf, pos, 8)

----------------------------------------------------------------------------
(* vm::bytecode::ops: BOp *)

BFnEntry(n)      == [op |-> "FnEntry", num_locals |-> n]
BGetLocal(i)     == [op |-> "GetLocal", idx |-> i]
BSetLocal(i)     == [op |-> "SetLocal", idx |-> i]
BCall(a, n)      == [op |-> "Call", addr |-> a, num_args |-> n]
BInvoke(n)       == [op |-> "Invoke", num_args |-> n]
BPushAddress(a)  == [op |-> "PushAddress", addr |-> a]
BBranchIf(d)     == [op |-> "BranchIf", dest |-> d]
BBranchIfNot(d)  == [op |-> "BranchIfNot", dest |-> d]
BReturn          == [op |-> "Return"]
BPop             == [op |-> "Pop"]
BNoop            == [op |-> "Noop"]
\* The compiler builds BLoadConst { id: 0 } (asm_compiler/mod.rs:490); the op
\* itself is not in ops.rs.  Its form follows the instruction table:
\* an opcode byte and a u64 id.
BLoadConst(id)   == [op |-> "LoadConst", id |-> id]

LoadConstOpcode == 11

OpcodeBranchesSwapped(o) ==
    CASE o.op = "FnEntry"     -> 0
      [] o.op = "GetLocal"    -> 1
      [] o.op = "SetLocal"    -> 2
      [] o.op = "Call"        -> 3
      [] o.op = "Invoke"      -> 4
      [] o.op = "Return"      -> 5
      [] o.op = "PushAddress" -> 6
      [] o.op = "BranchIf"    -> 8
      [] o.op = "BranchIfNot" -> 7
      [] o.op = "Pop"         -> 9
      [] o.op = "Noop"        -> 10
      [] o.op = "LoadConst"   -> LoadConstOpcode

\* BOp::opcode
Opcode(o) ==
    CASE o.op = "FnEntry"     -> 0
      [] o.op = "GetLocal"    -> 1
      [] o.op = "SetLocal"    -> 2
      [] o.op = "Call"        -> 3
      [] o.op = "Invoke"      -> 4
      [] o.op = "Return"      -> 5
      [] o.op = "PushAddress" -> 6
      [] o.op = "BranchIf"    -> 7
      [] o.op = "BranchIfNot" -> 8
      [] o.op = "Pop"         -> 9
      [] o.op = "Noop"        -> 10
      [] o.op = "LoadConst"   -> LoadConstOpcode

\* BLoadConst::to_binary
LoadConstOperands(o) == write_addr(o.id)

\* BOp::to_binary: the opcode byte, then the operands written by the
\* variant's to_binary.
ToBinary(o) ==
    <<Opcode(o)>> \o
    CASE o.op = "FnEntry"     -> write_hu16(o.num_locals)
      [] o.op = "GetLocal"    -> write_local(o.idx)
      [] o.op = "SetLocal"    -> write_local(o.idx)
      [] o.op = "Call"        -> write_addr(o.addr) \o write_hu8(o.num_args)
      [] o.op = "Invoke"      -> write_hu8(o.num_args)
      [] o.op = "PushAddress" -> write_addr(o.addr)
      [] o.op = "BranchIf"    -> write_addr(o.dest)
      [] o.op = "BranchIfNot" -> write_addr(o.dest)
      [] o.op = "LoadConst"   -> LoadConstOperands(o)
      [] OTHER                -> <<>>

RECURSIVE compile_ops(_)
\* BOp::compile_ops
compile_ops(ops) ==
    IF Len(ops) = 0 THEN <<>> ELSE ToBinary(ops[1]) \o compile_ops(Tail(ops))

DecodeOk(o, pos) == [kind |-> "ok", op |-> o, pos |-> pos]
DecodePanic(e)   == [kind |-> "panic", err |-> e]

\* BCall::from_binary: the address, then the argument count
DecodeCall(buf, pos) ==
    LET a == read_addr(buf, pos)
        n == IF a.kind = "ok" THEN read_hu8(buf, a.pos) ELSE a
    IN  IF n.kind = "ok" THEN DecodeOk(BCall(a.value, n.value), n.pos) ELSE DecodePanic(n.err)

\* BLoadConst::from_binary
DecodeLoadConst(buf, pos) ==
    LET a == read_addr(buf, pos)
    IN  IF a.kind = "ok" THEN DecodeOk(BLoadConst(a.value), a.pos) ELSE DecodePanic(a.err)

\* The struct a one-operand from_binary builds from the value it read
WithOperand(variant, v) ==
    CASE variant = "FnEntry"     -> BFnEntry(v)
      [] variant = "GetLocal"    -> BGetLocal(v)
      [] variant = "SetLocal"    -> BSetLocal(v)
      [] variant = "Invoke"      -> BInvoke(v)
      [] variant = "PushAddress" -> BPushAddress(v)
      [] variant = "BranchIf"    -> BBranchIf(v)
      [] variant = "BranchIfNot" -> BBranchIfNot(v)

\* The from_binary of a variant with one operand of the given width
DecodeOne(buf, pos, width, variant) ==
    LET r == HostRead(buf, pos, width)
    IN  IF r.kind = "ok" THEN DecodeOk(WithOperand(variant, r.value), r.pos)
        ELSE DecodePanic(r.err)

\* BOp::from_binary with the cursor at pos
FromBinary(buf, pos) ==
    LET b == read_hu8(buf, pos)
    IN  IF b.kind # "ok" THEN DecodePanic(b.err)
        ELSE CASE b.value = 0  -> DecodeOne(buf, b.pos, 2, "FnEntry")
               [] b.value = 1  -> DecodeOne(buf, b.pos, 2, "GetLocal")
               [] b.value = 2  -> DecodeOne(buf, b.pos, 2, "SetLocal")
               [] b.value = 3  -> DecodeCall(buf, b.pos)
               [] b.value = 4  -> DecodeOne(buf, b.pos, 1, "Invoke")
               [] b.value = 5  -> DecodeOk(BReturn, b.pos)
               [] b.value = 6  -> DecodeOne(buf, b.pos, 8, "PushAddress")
               [] b.value = 7  -> DecodeOne(buf, b.pos, 8, "BranchIf")
               [] b.value = 8  -> DecodeOne(buf, b.pos, 8, "BranchIfNot")
               [] b.value = 9  -> DecodeOk(BPop, b.pos)
               [] b.value = 10 -> DecodeOk(BNoop, b.pos)
               [] b.value = LoadConstOpcode -> DecodeLoadConst(buf, b.pos)
               [] OTHER        -> DecodePanic("InvalidOpcode")

\* BOp::addr_field_offset (idx is unused by the code): 1 + 0 for the ops
\* the match names, a panic for every other op.
addr_field_offset(o) ==
    IF o.op \in {"Call", "BranchIf", "BranchIfNot"}
    THEN [kind |-> "ok", value |-> 1 + 0]
    ELSE [kind |-> "panic", err |-> "OpHasNoAddressFields"]

----------------------------------------------------------------------------
(* asm: statements and values *)

StatementMod(p)        == [k |-> "Mod", path |-> p]
StatementExtern(p)     == [k |-> "Extern", path |-> p]
StatementConst(n, c, a) == [k |-> "Const", name |-> n, constructor |-> c, argument |-> a]
StatementStatic(n)     == [k |-> "Static", name |-> n]
StatementLocal(n)      == [k |-> "Local", name |-> n]
StatementAssignment(lv, operator, rv) ==
    [k |-> "Assignment", lvalue |-> lv, operator |-> operator, rvalue |-> rv]
StatementDefn(n, params, body) ==
    [k |-> "Defn", name |-> n, parameters |-> params, body |-> body]
StatementReturn        == [k |-> "Return"]
StatementCall(p, args) == [k |-> "Call", path |-> p, arguments |-> args]
StatementTest(n)       == [k |-> "Test", name |-> n]
\* If { condition, then_sibling: Then { body, else_sibling } }
StatementIf(cond, thenBody) == [k |-> "If", condition |-> cond, then_body |-> thenBody]

ValueName(n)        == [v |-> "Name", name |-> n]
ValuePath(p)        == [v |-> "Path", path |-> p]
ValueFn(params, body) == [v |-> "Fn", parameters |-> params, body |-> body]
ValueCall(p, args)  == [v |-> "Call", path |-> p, arguments |-> args]

\* Path::with_name(name): Path::new(vec![name]).unwrap()
PathWithName(name) == PathNew(<<name>>)

ValidationOk     == [kind |-> "ok"]
ValidationErr(e) == [kind |-> "err", err |-> e]

RECURSIVE ValidateFrom(_, _)
\* The loop of Module::validate and what follows it: an invalid statement
\* returns at once, the count of Mod statements is looked at after the
\* last statement.
ValidateFrom(stmts, mod_statements) ==
    IF Len(stmts) = 0
    THEN IF mod_statements = 0 THEN ValidationErr("MissingModStatement")
         ELSE IF mod_statements > 1 THEN ValidationErr("MoreThanOneModStatement")
         ELSE ValidationOk
    ELSE IF stmts[1].k \in {"Extern", "Const", "Static", "Defn"}
         THEN ValidateFrom(Tail(stmts), mod_statements)
    ELSE IF stmts[1].k = "Mod"
         THEN ValidateFrom(Tail(stmts), mod_statements + 1)
    ELSE ValidationErr("InvalidTopLevelStatement")

ValidateCountsAtMostOne(stmts) ==
    LET r == ValidateFrom(stmts, 0)
    IN  IF r.kind = "err" /\ r.err = "MoreThanOneModStatement" THEN ValidationOk ELSE r

\* Module::validate
Validate(stmts) == ValidateFrom(stmts, 0)

----------------------------------------------------------------------------
(* asm_compiler: Locals *)

\* Byte values of the characters the model's names are written with
CharCode(c) ==
    CASE c = "$" -> 36 [] c = "." -> 46 [] c = "@" -> 64 [] c = "_" -> 95
      [] c = "a" -> 97 [] c = "b" -> 98 [] c = "c" -> 99 [] c = "d" -> 100
      [] c = "f" -> 102 [] c = "h" -> 104 [] c = "m" -> 109 [] c = "n" -> 110
      [] c = "o" -> 111 [] c = "p" -> 112 [] c = "r" -> 114 [] c = "s" -> 115
      [] c = "t" -> 116 [] c = "w" -> 119 [] c = "x" -> 120 [] c = "y" -> 121
      [] c = "z" -> 122

RECURSIVE StrCmp(_, _)
\* Ord for String: byte-wise lexicographic; "Less", "Equal" or "Greater"
StrCmp(a, b) ==
    IF Len(a) = 0 THEN (IF Len(b) = 0 THEN "Equal" ELSE "Less")
    ELSE IF Len(b) = 0 THEN "Greater"
    ELSE IF CharCode(a[1]) < CharCode(b[1]) THEN "Less"
    ELSE IF CharCode(a[1]) > CharCode(b[1]) THEN "Greater"
    ELSE StrCmp(Tail(a), Tail(b))

Contains(seq, x) == \E i \in 1..Len(seq) : seq[i] = x

LocalsOk(locals, idx) == [kind |-> "ok", locals |-> locals, idx |-> idx]
LocalsErr(e)          == [kind |-> "err", err |-> e]

LocalsAddUnchecked(locals, local) ==
    LocalsOk(Append(locals, local), (Len(locals) + 1 - 1) % 65536)

\* Locals::add
LocalsAdd(locals, local) ==
    IF Contains(locals, local) THEN LocalsErr("LocalAlreadyExists")
    ELSE LocalsOk(Append(locals, local), (Len(locals) + 1 - 1) % 65536)

SearchOk(i)  == [found |-> TRUE, idx |-> i]
SearchErr(i) == [found |-> FALSE, idx |-> i]

(* slice::binary_search gives an unspecified result on a slice that is not  *)
(* sorted; which one depends on the standard library the crate is built     *)
(* with.  The three loops the library has had are modelled; all indices are *)
(* 0-based, s[ix + 1] is the element at index ix.                           *)

RECURSIVE SearchLim(_, _, _, _)
\* base/lim halving loop (Rust up to 1.16)
SearchLim(s, x, base, lim) ==
    IF lim = 0 THEN SearchErr(base)
    ELSE LET ix == base + (lim \div 2)
             c  == StrCmp(s[ix + 1], x)
         IN  IF c = "Equal" THEN SearchOk(ix)
             ELSE IF c = "Less" THEN SearchLim(s, x, ix + 1, (lim - 1) \div 2)
             ELSE SearchLim(s, x, base, lim \div 2)

RECURSIVE SearchHalf(_, _, _, _)
\* base/size loop that compares for equality once, at the end
\* (Rust 1.17 to 1.51, and again from 1.82)
SearchHalf(s, x, base, size) ==
    IF size > 1
    THEN LET half == size \div 2
             mid  == base + half
             c    == StrCmp(s[mid + 1], x)
         IN  SearchHalf(s, x, IF c = "Greater" THEN base ELSE mid, size - half)
    ELSE LET c == StrCmp(s[base + 1], x)
         IN  IF c = "Equal" THEN SearchOk(base)
             ELSE SearchErr(base + (IF c = "Less" THEN 1 ELSE 0))

RECURSIVE SearchRange(_, _, _, _)
\* left/right loop with an early return (Rust 1.52 to 1.81)
SearchRange(s, x, left, right) ==
    IF left >= right THEN SearchErr(left)
    ELSE LET mid == left + ((right - left) \div 2)
             c   == StrCmp(s[mid + 1], x)
         IN  IF c = "Less" THEN SearchRange(s, x, mid + 1, right)
             ELSE IF c = "Greater" THEN SearchRange(s, x, left, mid)
             ELSE SearchOk(mid)

SearchImpls == {"lim", "half", "range"}

\* self.locals.binary_search(&local)
BinarySearch(s, x) ==
    IF Len(s) = 0 THEN SearchErr(0)
    ELSE CASE searchImpl = "lim"   -> SearchLim(s, x, 0, Len(s))
           [] searchImpl = "half"  -> SearchHalf(s, x, 0, Len(s))
           [] searchImpl = "range" -> SearchRange(s, x, 0, Len(s))

\* Locals::find
LocalsFind(locals, local) ==
    LET result == BinarySearch(locals, local)
    IN  IF result.found THEN [kind |-> "ok", idx |-> result.idx % 65536]
        ELSE LocalsErr("LocalNotFound")

RECURSIVE CollectFrom(_, _)
\* The loop of BasicBlock::collect_locals over the statements of the block
\* itself; add(..).unwrap() panics on a name that is already there.
CollectFrom(stmts, locals) ==
    IF Len(stmts) = 0 THEN LocalsOk(locals, 0)
    ELSE LET stmt == stmts[1]
             declares ==
                 \/ stmt.k = "Local"
                 \/ stmt.k = "Assignment" /\ stmt.operator = "AllocateAndAssign"
             name == IF stmt.k = "Local" THEN stmt.name ELSE stmt.lvalue
         IN  IF ~declares THEN CollectFrom(Tail(stmts), locals)
             ELSE LET added == LocalsAdd(locals, name)
                  IN  IF added.kind = "err" THEN added
                      ELSE CollectFrom(Tail(stmts), added.locals)

\* BasicBlock::collect_locals
collect_locals(body) == CollectFrom(body, <<>>)

----------------------------------------------------------------------------
(* asm_compiler: lowering *)

\* Op::Owned(op), and Op::Shared(Rc<BOp>): shared is the identity of the Rc
\* allocation (PartialEq and Hash for BOp compare pointers), 0 for an owned op.
Owned(b)      == [shared |-> 0, b |-> b]
Shared(id, b) == [shared |-> id, b |-> b]

\* asm_compiler::Module::new; next counts the Rc<BOp> allocated so far
NewModule ==
    [name |-> <<>>, relocations |-> <<>>, functions |-> <<>>, consts |-> <<>>,
     statics |-> <<>>, next |-> 0]

\* A lowering that returned its ops, and one that panicked
Done(ops, m) == [err |-> "", ops |-> ops, m |-> m]
Panic(e)     == [err |-> e, ops |-> <<>>, m |-> NewModule]

\* ops.extend(..) of a lowering onto the ops that precede it
Prepend(ops, rest) ==
    IF rest.err # "" THEN rest ELSE Done(ops \o rest.ops, rest.m)

\* ops.push_owned(op) after a lowering
PushOwned(value, op) ==
    IF value.err # "" THEN value ELSE Done(Append(value.ops, Owned(op)), value.m)

\* LocalContextRef: Option<&LocalContext>
SomeContext(locals) == [some |-> TRUE, locals |-> locals]
NoContext           == [some |-> FALSE]

\* lc.unwrap().locals.find(name).unwrap()
FindSlot(lc, name) ==
    IF ~lc.some THEN LocalsErr("UnwrapNone") ELSE LocalsFind(lc.locals, name)

\* Rc::new(op): a fresh identity
NewShared(m) == m.next + 1

\* Module::add_call_relocation, add_const_relocation, add_function_relocation,
\* add_branch_relocation, for a site that has just been allocated
AddRelocation(m, target) ==
    [m EXCEPT !.next = NewShared(m),
              !.relocations = Append(@, [site |-> NewShared(m), target |-> target])]

ExternalFunctionPathOf(str) == [t |-> "ExternalFunctionPath", path |-> str]
ConstPathOf(str)            == [t |-> "ConstPath", path |-> str]
InternalBranchAddress(id)   == [t |-> "InternalBranchAddress", op |-> id]
InternalFunctionAddress(f)  == [t |-> "InternalFunctionAddress", fn |-> f]

\* vec![Op::Owned(BGetLocal { idx })] for the slot that was found
GetLocalOf(found, m) ==
    IF found.kind = "err" THEN Panic(found.err)
    ELSE Done(<<Owned(BGetLocal(found.idx))>>, m)

\* Value::compile_name_to_value
compile_name_to_value(name, lc, m) == GetLocalOf(FindSlot(lc, name), m)

\* Compile for asm::Test
CompileTest(t, lc, m) == GetLocalOf(FindSlot(lc, t.name), m)

RECURSIVE CompileArguments(_, _, _)
\* The rest of the arguments after one of them
ArgumentsAfter(head, rest, lc) ==
    IF head.err # "" THEN head ELSE Prepend(head.ops, CompileArguments(rest, lc, head.m))

\* The loop of CompileToValue for asm::Call over the argument names
CompileArguments(args, lc, m) ==
    IF Len(args) = 0 THEN Done(<<>>, m)
    ELSE ArgumentsAfter(GetLocalOf(FindSlot(lc, args[1]), m), Tail(args), lc)

\* CompileToValue for asm::Call, after the loop
CallAfterArguments(args, c) ==
    IF args.err # "" THEN args
    ELSE Done(Append(args.ops,
                     Shared(NewShared(args.m), BCall(0, Len(c.arguments) % 256))),
              AddRelocation(args.m, ExternalFunctionPathOf(PathToString(c.path))))

\* CompileToValue for asm::Call
CompileCallToValue(c, lc, m) == CallAfterArguments(CompileArguments(c.arguments, lc, m), c)

\* Compile for asm::Call
CompileCall(c, lc, m) == PushOwned(CompileCallToValue(c, lc, m), BPop)

\* CompileToValue for asm::Path, once ends_with_const has answered
LoadConstOf(is_const, p, m) ==
    IF is_const.kind = "panic" THEN Panic(is_const.err)
    ELSE IF ~is_const.value THEN Panic("CannotCompilePathToValue")
    ELSE Done(<<Shared(NewShared(m), BLoadConst(0))>>,
              AddRelocation(m, ConstPathOf(PathToString(p))))

\* CompileToValue for asm::Path
CompilePathToValue(p, m) == LoadConstOf(ends_with_const(p), p, m)

\* Compile for asm::Return
CompileReturn(m) == Done(<<Owned(BReturn)>>, m)

\* Compile for asm::Const
CompileConst(c, m) ==
    Done(<<>>, [m EXCEPT !.consts =
                   Append(@, <<c.name, PathToString(c.constructor), c.argument>>)])

\* Compile for asm::Static (Statement::compile does not dispatch to it)
CompileStatic(s, m) == Done(<<>>, [m EXCEPT !.statics = Append(@, s.name)])

\* Compile for asm::Mod (Statement::compile does not dispatch to it)
CompileMod(md, m) ==
    IF Len(m.name) = 0 THEN Done(<<>>, [m EXCEPT !.name = PathToString(md.path)])
    ELSE Panic("CannotRedefineModule")

\* Module::add_fn and Module::add_defn: the function goes to the end of the
\* list; its place there is its identity (Rc<Function> compares by pointer).
AddFunction(m, f) == [m EXCEPT !.functions = Append(@, f)]

Named(name, ops) == [named |-> TRUE, name |-> name, ops |-> ops]
Anonymous(ops)   == [named |-> FALSE, name |-> <<>>, ops |-> ops]

RECURSIVE CompileStatement(_, _, _)
RECURSIVE CompileBlock(_, _, _)

\* The statements of a block after one of them
BlockAfter(head, rest, lc) ==
    IF head.err # "" THEN head ELSE Prepend(head.ops, CompileBlock(rest, lc, head.m))

\* Compile for asm::BasicBlock
CompileBlock(block, lc, m) ==
    IF Len(block) = 0 THEN Done(<<>>, m)
    ELSE BlockAfter(CompileStatement(block[1], lc, m), Tail(block), lc)

\* compile_function_body, once the locals are collected: FnEntry, then the body
BodyWithLocals(locals, block, m) ==
    IF locals.kind = "err" THEN Panic(locals.err)
    ELSE Prepend(<<Owned(BFnEntry(Len(locals.locals) % 65536))>>,
                 CompileBlock(block, SomeContext(locals.locals), m))

\* compile_function_body
compile_function_body(block, m) == BodyWithLocals(collect_locals(block), block, m)

\* m.add_defn(Function { name: Named(name), ops })
DefnOf(fn, name) ==
    IF fn.err # "" THEN fn ELSE Done(<<>>, AddFunction(fn.m, Named(name, fn.ops)))

\* Compile for asm::Defn
CompileDefn(d, m) == DefnOf(compile_function_body(d.body, m), d.name)

\* The shared PushAddress and its relocation to the function added last
PushAddressOf(m) ==
    Done(<<Shared(NewShared(m), BPushAddress(0))>>,
         AddRelocation(m, InternalFunctionAddress(Len(m.functions))))

\* m.add_fn(Function { name: Anonymous, ops }) and what follows it
FnValueOf(fn) ==
    IF fn.err # "" THEN fn ELSE PushAddressOf(AddFunction(fn.m, Anonymous(fn.ops)))

\* CompileToValue for asm::Fn
CompileFnToValue(f, m) == FnValueOf(compile_function_body(f.body, m))

\* CompileToValue for asm::Value
CompileValue(value, lc, m) ==
    CASE value.v = "Name" -> compile_name_to_value(value.name, lc, m)
      [] value.v = "Fn"   -> CompileFnToValue(value, m)
      [] value.v = "Call" -> CompileCallToValue(value, lc, m)
      [] value.v = "Path" -> CompilePathToValue(value.path, m)

\* Compile for asm::Assignment, once the slot of the lvalue is looked up
AssignmentTo(found, a, lc, m) ==
    IF found.kind = "err" THEN Panic(found.err)
    ELSE PushOwned(CompileValue(a.rvalue, lc, m), BSetLocal(found.idx))

\* Compile for asm::Assignment: the slot of the lvalue is looked up first
CompileAssignment(a, lc, m) == AssignmentTo(FindSlot(lc, a.lvalue), a, lc, m)

\* If::compile_if_to_value after the condition block: its first op made shared
ShareEntry(cond) ==
    IF cond.err # "" THEN cond
    ELSE IF Len(cond.ops) = 0 THEN Panic("IndexOutOfBounds")
    ELSE IF cond.ops[1].shared = 0
         THEN Done(<<Shared(NewShared(cond.m), cond.ops[1].b)>> \o Tail(cond.ops),
                   [cond.m EXCEPT !.next = NewShared(cond.m)])
         ELSE cond

\* If::compile_if_to_value
compile_if_to_value(i, lc, m) == ShareEntry(CompileBlock(i.condition, lc, m))

BranchOpIsBranchIfNot(dest) == BBranchIfNot(dest)

\* The op Compile for asm::If binds to branch_if_not: BBranchIf { dest: 0 }
IfBranchOp(dest) == BBranchIf(dest)

\* Compile for asm::If, once both blocks are lowered: the shared branch and
\* the shared Noop around the ops of the Then, and the branch relocation
IfAround(if_ops, then_ops) ==
    IF then_ops.err # "" THEN then_ops
    ELSE Done(if_ops
                 \o <<Shared(NewShared(then_ops.m), IfBranchOp(0))>>
                 \o then_ops.ops
                 \o <<Shared(NewShared(then_ops.m) + 1, BNoop)>>,
              [AddRelocation(then_ops.m, InternalBranchAddress(NewShared(then_ops.m) + 1))
                  EXCEPT !.next = @ + 1])

\* Compile for asm::If after compile_if_to_value (then_sibling.compile is the
\* body of the Then; its else_sibling is not looked at)
IfAfterCondition(if_ops, i, lc) ==
    IF if_ops.err # "" THEN if_ops
    ELSE IfAround(if_ops.ops, CompileBlock(i.then_body, lc, if_ops.m))

\* Compile for asm::If
CompileIf(i, lc, m) == IfAfterCondition(compile_if_to_value(i, lc, m), i, lc)

\* Compile for asm::Statement
CompileStatement(stmt, lc, m) ==
    CASE stmt.k = "Mod"        -> Done(<<>>, m)
      [] stmt.k = "Const"      -> CompileConst(stmt, m)
      [] stmt.k = "Local"      -> Done(<<>>, m)
      [] stmt.k = "Assignment" -> CompileAssignment(stmt, lc, m)
      [] stmt.k = "Defn"       -> CompileDefn(stmt, m)
      [] stmt.k = "Call"       -> CompileCall(stmt, lc, m)
      [] stmt.k = "Return"     -> CompileReturn(m)
      [] stmt.k = "Test"       -> CompileTest(stmt, lc, m)
      [] stmt.k = "If"         -> CompileIf(stmt, lc, m)
      [] stmt.k = "Then"       -> Done(<<>>, m)
      [] stmt.k = "Else"       -> Done(<<>>, m)
      [] OTHER                 -> Panic("NotImplemented")

----------------------------------------------------------------------------
(* asm_compiler: stream assembly *)

\* HashMap::insert and HashMap::get; a map is a function on the keys it holds
MapInsert(map, key, value) == (key :> value) @@ map
MapHas(map, key) == key \in DOMAIN map
EmptyMap == <<>>

\* code, op_map, function_map and functions at the start of compile; emitted
\* lists the ops that were written, with their addresses
StartOfAssembly ==
    [code |-> <<>>, op_map |-> EmptyMap, emitted |-> <<>>,
     function_map |-> EmptyMap, functions |-> <<>>]

\* The op that was written at an address
EmittedAt(st, addr) ==
    LET e == CHOOSE e \in 1..Len(st.emitted) : st.emitted[e].at = addr
    IN  st.emitted[e].b

\* What op_map would be under an Eq and Hash of BOp by value: the insert
\* of an op replaces the address of every key whose op has the same bytes
IngestOpByValue(st, op) ==
    [st EXCEPT !.code = @ \o ToBinary(op.b),
               !.op_map = IF op.shared # 0
                          THEN [k \in DOMAIN @ \cup {op.shared} |->
                                   IF k = op.shared THEN Len(st.code)
                                   ELSE IF EmittedAt(st, @[k]) = op.b THEN Len(st.code)
                                   ELSE @[k]]
                          ELSE @,
               !.emitted = Append(@, [at |-> Len(st.code), b |-> op.b])]

\* One turn of the loop of ingest_ops: the bytes of the op are appended, the
\* address of a shared op is noted
IngestOp(st, op) ==
    [st EXCEPT !.code = @ \o ToBinary(op.b),
               !.op_map = IF op.shared # 0 THEN MapInsert(@, op.shared, Len(st.code)) ELSE @,
               !.emitted = Append(@, [at |-> Len(st.code), b |-> op.b])]

RECURSIVE ingest_ops(_, _)
\* asm::Module::ingest_ops
ingest_ops(st, ops) ==
    IF Len(ops) = 0 THEN st ELSE ingest_ops(IngestOp(st, ops[1]), Tail(ops))

\* One turn of the loop of compile over module.functions, before its ops
\* are ingested
EnterFunction(st, f, fid) ==
    [st EXCEPT !.function_map = MapInsert(@, fid, Len(st.code)),
               !.functions = IF f.named THEN Append(@, <<f.name, Len(st.code)>>) ELSE @]

RECURSIVE IngestFunctions(_, _, _)
\* The loop of compile over module.functions
IngestFunctions(functions, fid, st) ==
    IF fid > Len(functions) THEN st
    ELSE IngestFunctions(functions, fid + 1,
             ingest_ops(EnterFunction(st, functions[fid], fid), functions[fid].ops))

InternalAddress(addr) == [t |-> "InternalAddress", addr |-> addr]

\* The match on relocation.target in resolve_relocations
ResolveTarget(target, st) ==
    CASE target.t = "InternalBranchAddress" ->
           IF MapHas(st.op_map, target.op) THEN InternalAddress(st.op_map[target.op])
           ELSE [t |-> "panic"]
      [] target.t = "InternalFunctionAddress" ->
           IF MapHas(st.function_map, target.fn)
           THEN InternalAddress(st.function_map[target.fn])
           ELSE [t |-> "panic"]
      [] OTHER -> target

\* One turn of the loop of resolve_relocations, once the site is known to be
\* in op_map
ResolveAt(base, offset, resolved) ==
    IF offset.kind = "panic" THEN [err |-> offset.err]
    ELSE IF resolved.t = "panic" THEN [err |-> "UnwrapNone"]
    ELSE [err |-> "", site |-> base + offset.value, target |-> resolved]

RECURSIVE ResolveFrom(_, _, _, _)
\* The rest of the relocations after one of them
ResolveAfter(one, rest, ops_by_id, st, out) ==
    IF one.err # "" THEN [err |-> one.err, relocations |-> out]
    ELSE ResolveFrom(rest, ops_by_id, st,
                     Append(out, [site |-> one.site, target |-> one.target]))

\* asm::Module::resolve_relocations
ResolveFrom(relocations, ops_by_id, st, out) ==
    IF Len(relocations) = 0 THEN [err |-> "", relocations |-> out]
    ELSE IF ~MapHas(st.op_map, relocations[1].site)
         THEN [err |-> "SiteNotFound", relocations |-> out]
    ELSE ResolveAfter(ResolveAt(st.op_map[relocations[1].site],
                                addr_field_offset(ops_by_id[relocations[1].site]),
                                ResolveTarget(relocations[1].target, st)),
                      Tail(relocations), ops_by_id, st, out)

RECURSIVE SharedOps(_, _)
\* The BOp behind each Rc<BOp> of an op vector
SharedOps(ops, acc) ==
    IF Len(ops) = 0 THEN acc
    ELSE SharedOps(Tail(ops),
                   IF ops[1].shared # 0 THEN MapInsert(acc, ops[1].shared, ops[1].b) ELSE acc)

RECURSIVE SharedOpsOfFunctions(_, _)
\* The BOp behind each Rc<BOp> of the functions of a module
SharedOpsOfFunctions(functions, acc) ==
    IF Len(functions) = 0 THEN acc
    ELSE SharedOpsOfFunctions(Tail(functions), SharedOps(functions[1].ops, acc))

CompiledPanic(e) == [kind |-> "panic", err |-> e]

\* The CompiledModule that compile returns
CompiledModuleOf(module, st, relocations) ==
    IF relocations.err # "" THEN CompiledPanic(relocations.err)
    ELSE [kind |-> "ok",
          name |-> module.name,
          code |-> st.code,
          functions |-> st.functions,
          consts |-> module.consts,
          statics |-> module.statics,
          relocations |-> relocations.relocations,
          emitted |-> st.emitted]

\* compile after the ops are ingested: resolve_relocations
Link(module, ops_by_id, st) ==
    CompiledModuleOf(module, st, ResolveFrom(module.relocations, ops_by_id, st, <<>>))

\* compile after the top-level statements are lowered
Assemble(top) ==
    IF top.err # "" THEN CompiledPanic(top.err)
    ELSE Link(top.m,
              SharedOpsOfFunctions(top.m.functions, SharedOps(top.ops, EmptyMap)),
              IngestFunctions(top.m.functions, 1, ingest_ops(StartOfAssembly, top.ops)))

\* CompileModule for asm::Module: compile
CompileModule(statements) == Assemble(CompileBlock(statements, NoContext, NewModule))

----------------------------------------------------------------------------
(* vm::machine, vm::interpreter *)

\* ValuePointer: *mut usize
Null == 0

\* ValueBox<Addr>; live until Box::from_raw takes it back and drops it
AddrBox(a) == [type |-> "Addr", value |-> a, live |-> TRUE]

\* struct Frame
Frame(return_addr, args, slots) ==
    [return_addr |-> return_addr, args |-> args, slots |-> slots]

\* A resize that would leave no slot with the value it had
ResizeToNulls(slots, n) == [i \in 1..n |-> Null]

\* Vec::resize(n, 0x0 as ValuePointer)
Resize(slots, n) == [i \in 1..n |-> IF i <= Len(slots) THEN slots[i] ELSE Null]

\* What Vec::pop leaves
Front(s) == SubSeq(s, 1, Len(s) - 1)

\* Machine::pop_stack_into_vec: out is Vec::with_capacity(num), which has
\* length 0; the first turn of the loop pops a value (unwrap) and assigns
\* out[num - 1], which is out of bounds.  No turn is taken when num is 0.
pop_stack_into_vec(stk, num) ==
    IF num = 0 THEN [kind |-> "ok", out |-> <<>>, stack |-> stk]
    ELSE IF Len(stk) = 0 THEN [kind |-> "panic", err |-> "UnwrapNone", stack |-> stk]
    ELSE [kind |-> "panic", err |-> "IndexOutOfBounds", stack |-> Front(stk)]

\* Machine::build_frame, once the arguments are popped
FrameOf(popped, return_addr) ==
    IF popped.kind = "panic" THEN popped
    ELSE [kind |-> "ok", frame |-> Frame(return_addr, popped.out, <<>>),
          stack |-> popped.stack]

\* Machine::build_frame
build_frame(stk, return_addr, num_args) ==
    FrameOf(pop_stack_into_vec(stk, num_args), return_addr)

\* No machine is running, and execute is inside its loop
Idle    == [kind |-> "idle"]
Running == [kind |-> "running"]

\* execute ends by a panic
Panicked(e) == [kind |-> "panic", err |-> e]

\* execute ends outside the language's rules (a wild pointer was read)
Crashed == [kind |-> "crash"]

\* BOp::from_binary(&mut cursor) with the cursor at ip
Fetch == FromBinary(code, ip)

\* The instruction status is about to run
Fetched(variant) ==
    /\ status = Running
    /\ Fetch.kind = "ok"
    /\ Fetch.op.op = variant

\* What is noted of an instruction when it runs
Executing ==
    [op |-> Fetch.op, at |-> ip, next |-> Fetch.pos,
     stack |-> stack, call_stack |-> call_stack, heap |-> heap,
     call_sites |-> call_sites]

\* The Call or Invoke being run, noted beside the frame it pushes
CallSite == [at |-> ip, next |-> Fetch.pos, depth |-> Len(call_stack), stack |-> stack]

\* frame.slots of the top frame replaced
WithSlots(frames, slots) == [frames EXCEPT ![Len(frames)].slots = slots]

----------------------------------------------------------------------------
(* vm::machine: the symbol table and load_module *)

\* enum TableValue
Const(ptr)   == [t |-> "Const", ptr |-> ptr]
Static(ptr)  == [t |-> "Static", ptr |-> ptr]
Defn(addr)   == [t |-> "Defn", addr |-> addr]
Primitive(f) == [t |-> "Primitive", fn |-> f]

\* How a call of the loader went on
LoadPanic(e, p) == [kind |-> "panic", err |-> e, path |-> p]

\* TableValue::as_addr
as_addr(value) ==
    IF value.t = "Defn" THEN [kind |-> "ok", addr |-> value.addr]
    ELSE [kind |-> "panic", err |-> "CannotConvertToAddr"]

\* SymbolTable::has_symbol
has_symbol(table, symbol) == symbol \in DOMAIN table

\* SymbolTable::lookup_symbol
lookup_symbol(table, symbol) ==
    IF symbol \in DOMAIN table
    THEN [kind |-> "ok", value |-> table[symbol], err |-> "", path |-> <<>>]
    ELSE [kind |-> "panic", value |-> None, err |-> "SymbolNotFound", path |-> symbol]

\* SymbolTable::set_symbol
set_symbol(table, symbol, value) ==
    [k \in DOMAIN table \cup {symbol} |-> IF k = symbol THEN value ELSE table[k]]

\* The fields of struct Machine
MachineOf(c, frames, i, stk, table) ==
    [code |-> c, call_stack |-> frames, ip |-> i, stack |-> stk, symbol_table |-> table]

\* Machine::empty
MachineEmpty == MachineOf(<<>>, <<>>, 0, <<>>, <<>>)

\* ValueBox::new(argument) for an Option<String>, and the String a
\* constructor makes of it
OptionBox(argument) == [type |-> "Option<String>", value |-> argument, live |-> TRUE]
StringBox(argument) == [type |-> "String", value |-> argument, live |-> TRUE]

\* The primitives bound in the symbol tables of the model: a constructor of
\* strings that pushes its one value; builtin_println, which pushes nothing;
\* a constructor that pushes its value and writes to every field of the
\* machine it is handed; and a constructor that pushes two values.
PrimitiveNames == {"string_new", "builtin_println", "string_new_wild", "string_pair"}

\* PrimitiveFn::call(machine, frame) with hp the boxes there are; gives the
\* machine and the boxes as the primitive leaves them
PrimitiveCall(f, machine, frame, hp) ==
    CASE f = "string_new" ->
            [machine |-> [machine EXCEPT !.stack = Append(@, Len(hp) + 1)],
             heap |-> Append(hp, StringBox(hp[frame.args[1]].value))]
      [] f = "string_new_wild" ->
            [machine |-> [machine EXCEPT !.stack = Append(@, Len(hp) + 1),
                                         !.code = <<5>>, !.ip = 1,
                                         !.call_stack = Append(@, frame)],
             heap |-> Append(hp, StringBox(hp[frame.args[1]].value))]
      [] f = "string_pair" ->
            [machine |-> [machine EXCEPT !.stack = @ \o <<Len(hp) + 1, Len(hp) + 2>>],
             heap |-> hp \o <<StringBox(hp[frame.args[1]].value),
                              StringBox(hp[frame.args[1]].value)>>]
      [] OTHER -> [machine |-> machine, heap |-> hp]

\* name.push_str(module_name); name.push_str("."); name.push_str(const_name)
ConstKey(module_name, const_name) == module_name \o <<".">> \o const_name

RECURSIVE resolve_const_constructors(_, _, _)
RECURSIVE ResolveConstructor(_, _, _, _)

\* One turn of the loop of resolve_const_constructors, the constructor path
\* looked up
ResolveConstructor(found, table, consts, constructors) ==
    IF found.kind = "panic" THEN LoadPanic(found.err, found.path)
    ELSE IF found.value.t # "Primitive"
    THEN LoadPanic("ConstConstructorNotFound", consts[1][2])
    ELSE resolve_const_constructors(table, Tail(consts),
             Append(constructors, <<consts[1][1], found.value.fn, consts[1][3]>>))

\* Machine::resolve_const_constructors
resolve_const_constructors(table, consts, constructors) ==
    IF Len(consts) = 0 THEN [kind |-> "ok", calls |-> constructors]
    ELSE ResolveConstructor(lookup_symbol(table, consts[1][2]), table, consts, constructors)

\* The machine load_consts works for, after a constructor was called on the
\* machine it was handed: the constructors are handed `empty`
MachineAfterConstructorOnSelf(self, handed) ==
    [handed EXCEPT !.symbol_table = self.symbol_table]

MachineAfterConstructor(self, handed) == self

\* What is noted of a call of a constructor: the constant it is for, the
\* machine and the frame it was handed, and the stack it left
ConstructorCall(name, handed, frame, called) ==
    [name |-> name, handed |-> handed, frame |-> frame, left |-> called.machine.stack]

RECURSIVE RunConstructors(_, _, _)
RECURSIVE AfterConstructor(_, _, _, _)
RECURSIVE Constructed(_, _, _, _)

\* constructor.call(&mut empty, &frame) has returned: the call is noted
Constructed(calls, module_name, st, called) ==
    AfterConstructor(calls, module_name,
        [st EXCEPT !.constructed =
            Append(@, ConstructorCall(calls[1][1], st.empty,
                                      Frame(0, <<Len(st.heap) + 1>>, <<>>), called))],
        called)

\* One turn of the loop of load_consts, the constructor called: its value is
\* popped off the machine it ran on and bound as a Const
AfterConstructor(calls, module_name, st, called) ==
    IF Len(called.machine.stack) = 0
    THEN [kind |-> "panic", err |-> "ConstructorDidNotPush",
          path |-> ConstKey(module_name, calls[1][1]),
          self |-> MachineAfterConstructor(st.self, called.machine),
          heap |-> called.heap, constructed |-> st.constructed]
    ELSE RunConstructors(Tail(calls), module_name,
             [self |-> [MachineAfterConstructor(st.self, called.machine) EXCEPT
                           !.symbol_table = set_symbol(@, ConstKey(module_name, calls[1][1]),
                                               Const(called.machine.stack[Len(called.machine.stack)]))],
              empty |-> [called.machine EXCEPT !.stack = Front(@)],
              heap |-> called.heap, constructed |-> st.constructed])

\* The loop of load_consts: `empty` is made once and handed to every
\* constructor, with a frame whose one argument is the boxed argument
RunConstructors(calls, module_name, st) ==
    IF Len(calls) = 0
    THEN [kind |-> "ok", err |-> "", path |-> <<>>, self |-> st.self, heap |-> st.heap,
          constructed |-> st.constructed]
    ELSE Constructed(calls, module_name, st,
             PrimitiveCall(calls[1][2], st.empty,
                           Frame(0, <<Len(st.heap) + 1>>, <<>>),
                           Append(st.heap, OptionBox(calls[1][3]))))

RECURSIVE ResolvableConsts(_, _)
\* The constants at the front of consts whose constructor path is bound to
\* a Primitive
ResolvableConsts(table, consts) ==
    IF Len(consts) = 0 THEN <<>>
    ELSE IF ~has_symbol(table, consts[1][2]) THEN <<>>
    ELSE IF table[consts[1][2]].t # "Primitive" THEN <<>>
    ELSE <<consts[1]>> \o ResolvableConsts(table, Tail(consts))

\* The panic of a constructor path, after the constructors before it ran
PanicAfter(ran, resolved) ==
    IF ran.kind = "panic" THEN ran
    ELSE [kind |-> "panic", err |-> resolved.err, path |-> resolved.path,
          self |-> ran.self, heap |-> ran.heap, constructed |-> ran.constructed]

\* A load_consts that would look up each constructor path only when its
\* turn in the loop over the constants has come
ConstsResolvedInTurn(resolved, self, hp, compiled_module) ==
    IF resolved.kind = "panic"
    THEN PanicAfter(
             RunConstructors(
                 resolve_const_constructors(self.symbol_table,
                     ResolvableConsts(self.symbol_table, compiled_module.consts), <<>>).calls,
                 compiled_module.name,
                 [self |-> self, empty |-> MachineEmpty, heap |-> hp, constructed |-> <<>>]),
             resolved)
    ELSE RunConstructors(resolved.calls, compiled_module.name,
                         [self |-> self, empty |-> MachineEmpty, heap |-> hp,
                          constructed |-> <<>>])

\* load_consts, the constructors resolved
ConstsWith(resolved, self, hp, compiled_module) ==
    IF resolved.kind = "panic"
    THEN [kind |-> "panic", err |-> resolved.err, path |-> resolved.path,
          self |-> self, heap |-> hp, constructed |-> <<>>]
    ELSE RunConstructors(resolved.calls, compiled_module.name,
                         [self |-> self, empty |-> MachineEmpty, heap |-> hp,
                          constructed |-> <<>>])

\* Machine::load_consts
load_consts(self, hp, compiled_module) ==
    ConstsWith(resolve_const_constructors(self.symbol_table, compiled_module.consts, <<>>),
               self, hp, compiled_module)

\* writer.set_position(pos); writer.write_hu64(v): the eight bytes of v in
\* host order over the bytes at pos; the writer is a cursor over a slice,
\* which cannot grow
write_hu64(buf, pos, v) ==
    IF pos + 8 > Len(buf) THEN [kind |-> "panic", err |-> "WriteZero", path |-> <<>>, code |-> buf]
    ELSE [kind |-> "ok", err |-> "", path |-> <<>>,
          code |-> [i \in 1..Len(buf) |->
                      IF i > pos /\ i <= pos + 8 THEN HostBytes(v, 8)[i - pos] ELSE buf[i]]]

\* ExternalFunctionPath(path), the symbol found: target.as_addr() is written
WriteTargetNowhere(addr, buf, pos, symbol) ==
    IF addr.kind = "panic"
    THEN [kind |-> "panic", err |-> addr.err, path |-> symbol, code |-> buf]
    ELSE [kind |-> "ok", err |-> "", path |-> <<>>, code |-> buf]

WriteTarget(addr, buf, pos, symbol) ==
    IF addr.kind = "panic"
    THEN [kind |-> "panic", err |-> addr.err, path |-> symbol, code |-> buf]
    ELSE write_hu64(buf, pos, addr.addr)

\* ConstPath(path): the key that is looked up
ConstPathKey(symbol, module_name) ==
    IF StartsWith(symbol, "@") \/ StartsWith(symbol, "$")
    THEN module_name \o <<".">> \o symbol
    ELSE symbol

\* ConstPath(path), the symbol looked up: nothing is written
ConstFound(found, buf) ==
    [kind |-> found.kind, err |-> found.err, path |-> found.path, code |-> buf]

\* let final_addr = base_addr + module_addr
module_addr_kept(base_addr, module_addr) == module_addr

final_addr(base_addr, module_addr) == base_addr + module_addr

\* let target_final_addr = base_addr + target_module_addr
target_module_addr_kept(base_addr, target_module_addr) == target_module_addr

target_final_addr(base_addr, target_module_addr) == base_addr + target_module_addr

\* One turn of the loop over the relocations of load_module
Relocated(relocation, buf, base_addr, table, cm) ==
    CASE relocation.target.t = "InternalAddress" ->
            write_hu64(buf, final_addr(base_addr, relocation.site),
                       target_final_addr(base_addr, relocation.target.addr))
      [] relocation.target.t = "ExternalFunctionPath" ->
            IF has_symbol(table, relocation.target.path)
            THEN WriteTarget(as_addr(table[relocation.target.path]), buf,
                             final_addr(base_addr, relocation.site), relocation.target.path)
            ELSE [kind |-> "panic", err |-> "SymbolNotFoundInSymbolTable",
                  path |-> relocation.target.path, code |-> buf]
      [] relocation.target.t = "ConstPath" ->
            ConstFound(lookup_symbol(table, ConstPathKey(relocation.target.path, cm.name)),
                       buf)

RECURSIVE Relocate(_, _, _, _, _)
RECURSIVE RelocateAfter(_, _, _, _, _)

RelocateAfter(written, rest, base_addr, table, cm) ==
    IF written.kind = "panic" THEN written
    ELSE Relocate(rest, written.code, base_addr, table, cm)

\* The loop over the relocations of load_module
Relocate(relocations, buf, base_addr, table, cm) ==
    IF Len(relocations) = 0
    THEN [kind |-> "ok", err |-> "", path |-> <<>>, code |-> buf]
    ELSE RelocateAfter(Relocated(relocations[1], buf, base_addr, table, cm),
                       Tail(relocations), base_addr, table, cm)

\* load_module, the relocations gone through
ModuleRelocated(relocated, consts) ==
    [kind |-> relocated.kind, err |-> relocated.err, path |-> relocated.path,
     machine |-> [consts.self EXCEPT !.code = relocated.code],
     heap |-> consts.heap, after_consts |-> consts.self,
     constructed |-> consts.constructed]

\* load_module, load_consts done: the code is appended and relocated
ModuleAfterConsts(consts, cm) ==
    IF consts.kind = "panic"
    THEN [kind |-> "panic", err |-> consts.err, path |-> consts.path,
          machine |-> consts.self, heap |-> consts.heap, after_consts |-> consts.self,
          constructed |-> consts.constructed]
    ELSE ModuleRelocated(Relocate(cm.relocations, consts.self.code \o cm.code,
                                  Len(consts.self.code), consts.self.symbol_table, cm),
                         consts)

\* ModuleLoad for Machine: load_module
load_module(self, hp, cm) ==
    ModuleAfterConsts(load_consts(self, hp, cm), cm)

----------------------------------------------------------------------------
(* SpecOps: to_binary, then from_binary on what it wrote *)

U8Samples  == {0, 1, 255}
U16Samples == {0, 1, 255, 256, 65535}
\* Addresses stay below 2^31 (the model's integers); the upper four bytes of
\* the operand are written and read, and are zero.
U64Samples == {0, 1, 255, 256, 65536, 16777216, 2147483647}

BOpUniverse ==
    {BFnEntry(n) : n \in U16Samples} \cup {BGetLocal(i) : i \in U16Samples}
    \cup {BSetLocal(i) : i \in U16Samples}
    \cup {BCall(a, n) : a \in U64Samples, n \in U8Samples}
    \cup {BInvoke(n) : n \in U8Samples}
    \cup {BPushAddress(a) : a \in U64Samples}
    \cup {BBranchIf(a) : a \in U64Samples}
    \cup {BBranchIfNot(a) : a \in U64Samples}
    \cup {BLoadConst(a) : a \in U64Samples}
    \cup {BReturn, BPop, BNoop}

JunkSamples == { <<>>, <<5>>, <<0, 255, 3>> }

Endians == {"little", "big"}

OpsInit ==
    /\ endian \in Endians
    /\ bop \in BOpUniverse
    /\ junk \in JunkSamples
    /\ bytes = None /\ decoded = None
    /\ pmode = "idle" /\ pSegments = <<>> /\ pString = <<>>
    /\ path = None /\ rendered = None /\ parsed = None
    /\ searchImpl = "lim" /\ module_stmts = <<>> /\ fn_body = <<>>
    /\ validated = None /\ compiled = None
    /\ code = <<>> /\ ip = 0 /\ stack = <<>> /\ call_stack = <<>> /\ heap = <<>>
    /\ status = Idle /\ executed = None /\ call_sites = <<>>
    /\ symbol_table = <<>> /\ loads = <<>>

DoToBinary ==
    /\ bop # None /\ bytes = None
    /\ bytes' = [kind |-> "ok", b |-> ToBinary(bop)]
    /\ UNCHANGED <<bop, junk, decoded>>
    /\ UNCHANGED notOps

DoFromBinary ==
    /\ bytes.kind = "ok" /\ decoded = None
    /\ decoded' = FromBinary(bytes.b \o junk, 0)
    /\ UNCHANGED <<bop, junk, bytes>>
    /\ UNCHANGED notOps

OpsNext == DoToBinary \/ DoFromBinary

SpecOps == OpsInit /\ [][OpsNext]_vars

----------------------------------------------------------------------------
(* SpecPath: Path::new, to_string and from_str applied to drawn inputs *)

MaxSegments == 3
MaxStrLen == 4

PathChars == {"a", "@", "$", "."}

\* Sample segments: plain, empty, sigiled, a lone sigil, one holding the
\* separator.
SegmentUniverse ==
    { <<"a">>, <<"b">>, <<>>, <<"@", "c">>, <<"$", "d">>, <<"@">>, <<"a", ".", "b">> }

\* The strings of tests::parse_path and tests::errors_on_bad_path.
ExampleStrings ==
    { <<"a">>, <<"a", ".", "b">>, <<"a", ".", "b", ".", "@", "c">>,
      <<"$", "a", ".", "b">>, <<"a", ".", "@", "b", ".", "c">> }

PathInit ==
    /\ pmode \in {"new", "str"}
    /\ pSegments \in (IF pmode = "new" THEN SeqsUpTo(SegmentUniverse, MaxSegments) ELSE {<<>>})
    /\ pString \in (IF pmode = "str" THEN SeqsUpTo(PathChars, MaxStrLen) \cup ExampleStrings
                                     ELSE {<<>>})
    /\ path = None /\ rendered = None /\ parsed = None
    /\ endian = "little"
    /\ bop = None /\ junk = <<>> /\ bytes = None /\ decoded = None
    /\ searchImpl = "lim" /\ module_stmts = <<>> /\ fn_body = <<>>
    /\ validated = None /\ compiled = None
    /\ code = <<>> /\ ip = 0 /\ stack = <<>> /\ call_stack = <<>> /\ heap = <<>>
    /\ status = Idle /\ executed = None /\ call_sites = <<>>
    /\ symbol_table = <<>> /\ loads = <<>>

DoPathNew ==
    /\ pmode = "new" /\ path = None
    /\ path' = PathNew(pSegments)
    /\ UNCHANGED <<pmode, pSegments, pString, rendered, parsed>>
    /\ UNCHANGED notPath

DoToString ==
    /\ path.kind = "ok" /\ rendered = None
    /\ rendered' = [kind |-> "ok", str |-> PathToString(path)]
    /\ UNCHANGED <<pmode, pSegments, pString, path, parsed>>
    /\ UNCHANGED notPath

DoFromStr ==
    /\ parsed = None
    /\ \/ pmode = "str" /\ parsed' = PathFromStr(pString)
       \/ pmode = "new" /\ rendered.kind = "ok" /\ parsed' = PathFromStr(rendered.str)
    /\ UNCHANGED <<pmode, pSegments, pString, path, rendered>>
    /\ UNCHANGED notPath

PathNext == DoPathNew \/ DoToString \/ DoFromStr

SpecPath == PathInit /\ [][PathNext]_vars

----------------------------------------------------------------------------
(* SpecModule: a module is put together, validated and compiled *)

MaxStmts == 3

NameFoo == <<"f", "o", "o">>
NameBar == <<"b", "a", "r">>
NameA   == <<"a">>
NameC   == <<"c">>
NameX   == <<"x">>
NameY   == <<"y">>

ReturnBody == <<StatementReturn>>
IfBody     == <<StatementLocal(NameC),
                StatementIf(<<StatementTest(NameC)>>, <<StatementReturn>>)>>
FnBody     == <<StatementAssignment(NameX, "AllocateAndAssign", ValueFn(<<>>, ReturnBody))>>
CallBody   == <<StatementCall(PathWithName(NameBar), <<>>)>>

ModPaths    == {PathWithName(NameFoo), PathNew(<<NameFoo, NameBar>>)}
ExternPaths == {PathWithName(NameBar)}
StaticNames == {<<"$", "s">>}
Defns ==
    { StatementDefn(NameA, <<>>, ReturnBody), StatementDefn(<<"p">>, <<>>, IfBody),
      StatementDefn(<<"h">>, <<>>, FnBody), StatementDefn(<<"m">>, <<>>, CallBody) }
\* Statements that reach stmts by with_stmts or by the public field
OtherStatements ==
    { StatementConst(<<"@", "h">>, PathWithName(<<"_", ".", "n">>), <<"h">>),
      StatementLocal(NameX) }

ModuleInit ==
    /\ module_stmts = <<>> /\ validated = None /\ compiled = None
    /\ endian \in Endians /\ searchImpl \in SearchImpls
    /\ fn_body = <<>>
    /\ pmode = "new" /\ pSegments = <<>> /\ pString = <<>>
    /\ path = None /\ rendered = None /\ parsed = None
    /\ bop = None /\ junk = <<>> /\ bytes = None /\ decoded = None
    /\ code = <<>> /\ ip = 0 /\ stack = <<>> /\ call_stack = <<>> /\ heap = <<>>
    /\ status = Idle /\ executed = None /\ call_sites = <<>>
    /\ symbol_table = <<>> /\ loads = <<>>

\* Module::push_mod
push_mod ==
    /\ Len(module_stmts) < MaxStmts
    /\ \E p \in ModPaths : module_stmts' = Append(module_stmts, StatementMod(p))
    /\ validated' = None /\ compiled' = None
    /\ UNCHANGED <<searchImpl, fn_body>> /\ UNCHANGED notAsm

\* Module::push_extern
push_extern ==
    /\ Len(module_stmts) < MaxStmts
    /\ \E p \in ExternPaths : module_stmts' = Append(module_stmts, StatementExtern(p))
    /\ validated' = None /\ compiled' = None
    /\ UNCHANGED <<searchImpl, fn_body>> /\ UNCHANGED notAsm

\* Module::push_static
push_static ==
    /\ Len(module_stmts) < MaxStmts
    /\ \E n \in StaticNames : module_stmts' = Append(module_stmts, StatementStatic(n))
    /\ validated' = None /\ compiled' = None
    /\ UNCHANGED <<searchImpl, fn_body>> /\ UNCHANGED notAsm

\* Module::push_defn
push_defn ==
    /\ Len(module_stmts) < MaxStmts
    /\ \E d \in Defns : module_stmts' = Append(module_stmts, d)
    /\ validated' = None /\ compiled' = None
    /\ UNCHANGED <<searchImpl, fn_body>> /\ UNCHANGED notAsm

\* module.stmts.push(..) of a statement that has no push_ method
push_stmt ==
    /\ Len(module_stmts) < MaxStmts
    /\ \E s \in OtherStatements : module_stmts' = Append(module_stmts, s)
    /\ validated' = None /\ compiled' = None
    /\ UNCHANGED <<searchImpl, fn_body>> /\ UNCHANGED notAsm

\* module.validate()
DoValidate ==
    /\ validated = None
    /\ validated' = Validate(module_stmts)
    /\ UNCHANGED <<searchImpl, module_stmts, fn_body, compiled>> /\ UNCHANGED notAsm

\* module.compile()
DoCompile ==
    /\ compiled = None
    /\ compiled' = CompileModule(module_stmts)
    /\ UNCHANGED <<searchImpl, module_stmts, fn_body, validated>> /\ UNCHANGED notAsm

ModuleNext ==
    push_mod \/ push_extern \/ push_static \/ push_defn \/ push_stmt
        \/ DoValidate \/ DoCompile

SpecModule == ModuleInit /\ [][ModuleNext]_vars

----------------------------------------------------------------------------
(* SpecFn: the body of a function is put together and the function compiled *)

MaxBody == 3

LocalNames  == {NameX, NameY, NameC}
Assignments ==
    { StatementAssignment(NameX, "AllocateAndAssign", ValueName(NameY)),
      StatementAssignment(NameY, "Plain", ValueName(NameX)),
      StatementAssignment(NameX, "Plain",
          ValueFn(<<>>, <<StatementLocal(NameC), StatementLocal(NameC)>>)) }
Calls == {StatementCall(PathWithName(NameBar), <<NameY>>)}
Ifs ==
    { StatementIf(<<StatementTest(NameC)>>, <<StatementReturn>>),
      StatementIf(<<StatementTest(NameC)>>, <<StatementLocal(NameC)>>),
      StatementIf(<<StatementTest(NameC)>>,
                  <<StatementIf(<<StatementTest(NameC)>>, <<StatementReturn>>)>>) }

\* mod foo; defn f() { body }
FnModule(body) == <<StatementMod(PathWithName(NameFoo)), StatementDefn(<<"f">>, <<>>, body)>>

FnInit ==
    /\ fn_body = <<>> /\ compiled = None
    /\ endian \in Endians /\ searchImpl \in SearchImpls
    /\ module_stmts = <<>> /\ validated = None
    /\ pmode = "new" /\ pSegments = <<>> /\ pString = <<>>
    /\ path = None /\ rendered = None /\ parsed = None
    /\ bop = None /\ junk = <<>> /\ bytes = None /\ decoded = None
    /\ code = <<>> /\ ip = 0 /\ stack = <<>> /\ call_stack = <<>> /\ heap = <<>>
    /\ status = Idle /\ executed = None /\ call_sites = <<>>
    /\ symbol_table = <<>> /\ loads = <<>>

\* body.stmts.push(StatementLocal(..))
PushLocal ==
    /\ Len(fn_body) < MaxBody
    /\ \E n \in LocalNames : fn_body' = Append(fn_body, StatementLocal(n))
    /\ compiled' = None
    /\ UNCHANGED <<searchImpl, module_stmts, validated>> /\ UNCHANGED notAsm

\* body.stmts.push(StatementAssignment(..))
PushAssignment ==
    /\ Len(fn_body) < MaxBody
    /\ \E a \in Assignments : fn_body' = Append(fn_body, a)
    /\ compiled' = None
    /\ UNCHANGED <<searchImpl, module_stmts, validated>> /\ UNCHANGED notAsm

\* body.stmts.push(StatementReturn(..))
PushReturn ==
    /\ Len(fn_body) < MaxBody
    /\ fn_body' = Append(fn_body, StatementReturn)
    /\ compiled' = None
    /\ UNCHANGED <<searchImpl, module_stmts, validated>> /\ UNCHANGED notAsm

\* body.stmts.push(StatementCall(..))
PushCall ==
    /\ Len(fn_body) < MaxBody
    /\ \E c \in Calls : fn_body' = Append(fn_body, c)
    /\ compiled' = None
    /\ UNCHANGED <<searchImpl, module_stmts, validated>> /\ UNCHANGED notAsm

\* body.stmts.push(StatementIf(..))
PushIf ==
    /\ Len(fn_body) < MaxBody
    /\ \E i \in Ifs : fn_body' = Append(fn_body, i)
    /\ compiled' = None
    /\ UNCHANGED <<searchImpl, module_stmts, validated>> /\ UNCHANGED notAsm

\* The module of the one function is compiled
DoCompileFn ==
    /\ compiled = None
    /\ compiled' = CompileModule(FnModule(fn_body))
    /\ UNCHANGED <<searchImpl, module_stmts, fn_body, validated>> /\ UNCHANGED notAsm

FnNext == PushLocal \/ PushAssignment \/ PushReturn \/ PushCall \/ PushIf \/ DoCompileFn

SpecFn == FnInit /\ [][FnNext]_vars

----------------------------------------------------------------------------
(* SpecVM: execute runs the code of a machine, one instruction a step *)

MaxProgram == 3
MaxFrames == 3
MaxHeap == 3
MaxStack == 3

\* The instructions the programs are made of
VmOps ==
    { BFnEntry(1), BGetLocal(0), BSetLocal(0),
      BCall(10, 0), BCall(19, 1), BCall(28, 2), BInvoke(0), BInvoke(1),
      BPushAddress(9), BBranchIf(0), BBranchIfNot(0), BReturn, BPop, BNoop }

\* The frames an embedder starts execute with: none, the frame the entry
\* function runs in, and that frame with a boxed value already in a slot
\* (the fields of Frame and Machine are public)
EntryFrames == {<<>>, <<Frame(0, <<>>, <<>>)>>, <<Frame(0, <<>>, <<1>>)>>}

\* The boxes the slots of the entry frame point to
EntryHeap(frames) ==
    IF Len(frames) > 0 /\ Len(frames[1].slots) > 0 THEN <<AddrBox(9)>> ELSE <<>>

\* Machine::new() with code put in; the embedder may have pushed the frame
\* the entry function runs in
VmInit ==
    /\ endian \in Endians
    /\ code \in {compile_ops(p) : p \in SeqsUpTo(VmOps, MaxProgram)}
    /\ ip = 0 /\ stack = <<>>
    /\ call_stack \in EntryFrames
    /\ heap = EntryHeap(call_stack)
    /\ call_sites = [i \in 1..Len(call_stack) |-> None]
    /\ symbol_table = <<>> /\ loads = <<>>
    /\ status = Running /\ executed = None
    /\ pmode = "new" /\ pSegments = <<>> /\ pString = <<>>
    /\ path = None /\ rendered = None /\ parsed = None
    /\ bop = None /\ junk = <<>> /\ bytes = None /\ decoded = None
    /\ searchImpl = "lim" /\ module_stmts = <<>> /\ fn_body = <<>>
    /\ validated = None /\ compiled = None

\* BOp::from_binary panics: no byte left, or no such opcode
StepDecodePanic ==
    /\ status = Running
    /\ Fetch.kind = "panic"
    /\ status' = Panicked(Fetch.err)
    /\ executed' = None
    /\ UNCHANGED <<code, ip, stack, call_stack, heap>> /\ UNCHANGED <<call_sites, notVm>>

\* FnEntry(fn_entry)
StepFnEntry ==
    /\ Fetched("FnEntry")
    /\ executed' = Executing
    /\ IF Len(call_stack) = 0
       THEN status' = Panicked("UnwrapNone") /\ UNCHANGED <<ip, call_stack>>
       ELSE /\ call_stack' = WithSlots(call_stack,
                                 Resize(call_stack[Len(call_stack)].slots, Fetch.op.num_locals))
            /\ ip' = Fetch.pos
            /\ UNCHANGED status
    /\ UNCHANGED <<code, stack, heap>> /\ UNCHANGED <<call_sites, notVm>>

\* GetLocal(get_local)
StepGetLocal ==
    /\ Fetched("GetLocal")
    /\ Len(stack) < MaxStack
    /\ executed' = Executing
    /\ IF Len(call_stack) = 0
       THEN status' = Panicked("UnwrapNone") /\ UNCHANGED <<ip, stack>>
       ELSE IF Fetch.op.idx >= Len(call_stack[Len(call_stack)].slots)
       THEN status' = Panicked("IndexOutOfBounds") /\ UNCHANGED <<ip, stack>>
       ELSE /\ stack' = Append(stack, call_stack[Len(call_stack)].slots[Fetch.op.idx + 1])
            /\ ip' = Fetch.pos
            /\ UNCHANGED status
    /\ UNCHANGED <<code, call_stack, heap>> /\ UNCHANGED <<call_sites, notVm>>

\* SetLocal(set_local): the value is popped before the frame is looked at
StepSetLocal ==
    /\ Fetched("SetLocal")
    /\ executed' = Executing
    /\ IF Len(stack) = 0
       THEN status' = Panicked("UnwrapNone") /\ UNCHANGED <<ip, stack, call_stack>>
       ELSE IF Len(call_stack) = 0
       THEN /\ status' = Panicked("UnwrapNone") /\ stack' = Front(stack)
            /\ UNCHANGED <<ip, call_stack>>
       ELSE IF Fetch.op.idx >= Len(call_stack[Len(call_stack)].slots)
       THEN /\ status' = Panicked("IndexOutOfBounds") /\ stack' = Front(stack)
            /\ UNCHANGED <<ip, call_stack>>
       ELSE /\ stack' = Front(stack)
            /\ call_stack' = [call_stack EXCEPT
                                 ![Len(call_stack)].slots[Fetch.op.idx + 1] = stack[Len(stack)]]
            /\ ip' = Fetch.pos
            /\ UNCHANGED status
    /\ UNCHANGED <<code, heap>> /\ UNCHANGED <<call_sites, notVm>>

\* The arm of Call once build_frame has returned or panicked
CallWith(built) ==
    IF built.kind = "panic"
    THEN /\ status' = Panicked(built.err) /\ stack' = built.stack
         /\ UNCHANGED <<ip, call_stack, call_sites>>
    ELSE /\ call_stack' = Append(call_stack, built.frame)
         /\ call_sites' = Append(call_sites, CallSite)
         /\ stack' = built.stack
         /\ ip' = Fetch.op.addr
         /\ UNCHANGED status

\* Call(call)
StepCall ==
    /\ Fetched("Call")
    /\ Len(call_stack) < MaxFrames
    /\ executed' = Executing
    /\ CallWith(build_frame(stack, Fetch.pos, Fetch.op.num_args))
    /\ UNCHANGED <<code, heap>> /\ UNCHANGED notVm

\* value.into_box::<Addr>() and *addr: the box is read and freed.  A null
\* pointer or a box that was freed already is undefined behaviour: the
\* process dies, or goes on with whatever the memory holds.
JumpThrough(value) ==
    IF value # Null /\ heap[value].live
    THEN /\ ip' = heap[value].value
         /\ heap' = [heap EXCEPT ![value].live = FALSE]
         /\ UNCHANGED status
    ELSE \/ status' = Crashed /\ UNCHANGED <<ip, heap>>
         \/ /\ ip' \in {0} \cup (IF value # Null THEN {heap[value].value} ELSE {})
            /\ UNCHANGED <<status, heap>>

\* The arm of Invoke once build_frame has returned or panicked
InvokeWith(built) ==
    IF built.kind = "panic"
    THEN /\ status' = Panicked(built.err) /\ stack' = built.stack
         /\ UNCHANGED <<ip, call_stack, heap, call_sites>>
    ELSE /\ call_stack' = Append(call_stack, built.frame)
         /\ call_sites' = Append(call_sites, CallSite)
         /\ IF Len(built.stack) = 0
            THEN /\ status' = Panicked("UnwrapNone") /\ stack' = built.stack
                 /\ UNCHANGED <<ip, heap>>
            ELSE /\ stack' = Front(built.stack)
                 /\ JumpThrough(built.stack[Len(built.stack)])

\* Invoke(invoke)
StepInvoke ==
    /\ Fetched("Invoke")
    /\ Len(call_stack) < MaxFrames
    /\ executed' = Executing
    /\ InvokeWith(build_frame(stack, Fetch.pos, Fetch.op.num_args))
    /\ UNCHANGED code /\ UNCHANGED notVm

\* PushAddress(push_address)
StepPushAddress ==
    /\ Fetched("PushAddress")
    /\ Len(heap) < MaxHeap /\ Len(stack) < MaxStack
    /\ executed' = Executing
    /\ heap' = Append(heap, AddrBox(Fetch.op.addr))
    /\ stack' = Append(stack, Len(heap) + 1)
    /\ ip' = Fetch.pos
    /\ UNCHANGED <<code, call_stack, status>> /\ UNCHANGED <<call_sites, notVm>>

BranchIfTakesNonNull(value) == value # Null

\* if value.is_null() { next_addr = branch_if.dest }
BranchIfTakes(value) == value = Null

\* BranchIf(branch_if): the branch is taken when the popped pointer is null
StepBranchIf ==
    /\ Fetched("BranchIf")
    /\ executed' = Executing
    /\ IF Len(stack) = 0
       THEN status' = Panicked("UnwrapNone") /\ UNCHANGED <<ip, stack>>
       ELSE /\ stack' = Front(stack)
            /\ ip' = IF BranchIfTakes(stack[Len(stack)]) THEN Fetch.op.dest ELSE Fetch.pos
            /\ UNCHANGED status
    /\ UNCHANGED <<code, call_stack, heap>> /\ UNCHANGED <<call_sites, notVm>>

\* BranchIfNot(branch_if_not): the branch is taken when it is not null
StepBranchIfNot ==
    /\ Fetched("BranchIfNot")
    /\ executed' = Executing
    /\ IF Len(stack) = 0
       THEN status' = Panicked("UnwrapNone") /\ UNCHANGED <<ip, stack>>
       ELSE /\ stack' = Front(stack)
            /\ ip' = IF stack[Len(stack)] # Null THEN Fetch.op.dest ELSE Fetch.pos
            /\ UNCHANGED status
    /\ UNCHANGED <<code, call_stack, heap>> /\ UNCHANGED <<call_sites, notVm>>

\* The frame call_stack.pop() hands back
PoppedFrameIsBottom(frames) == frames[1]

PoppedFrame(frames) == frames[Len(frames)]

\* Return
StepReturn ==
    /\ Fetched("Return")
    /\ executed' = Executing
    /\ IF Len(call_stack) = 0
       THEN status' = Panicked("UnwrapNone") /\ UNCHANGED <<ip, call_stack, call_sites>>
       ELSE /\ call_stack' = Front(call_stack)
            /\ call_sites' = Front(call_sites)
            /\ ip' = PoppedFrame(call_stack).return_addr
            /\ UNCHANGED status
    /\ UNCHANGED <<code, stack, heap>> /\ UNCHANGED notVm

\* Pop
StepPop ==
    /\ Fetched("Pop")
    /\ executed' = Executing
    /\ IF Len(stack) = 0
       THEN status' = Panicked("UnwrapNone") /\ UNCHANGED <<ip, stack>>
       ELSE stack' = Front(stack) /\ ip' = Fetch.pos /\ UNCHANGED status
    /\ UNCHANGED <<code, call_stack, heap>> /\ UNCHANGED <<call_sites, notVm>>

\* Noop
StepNoop ==
    /\ Fetched("Noop")
    /\ executed' = Executing
    /\ ip' = Fetch.pos
    /\ UNCHANGED <<code, stack, call_stack, heap, status>> /\ UNCHANGED <<call_sites, notVm>>

VmNext ==
    StepDecodePanic \/ StepFnEntry \/ StepGetLocal \/ StepSetLocal \/ StepCall
        \/ StepInvoke \/ StepPushAddress \/ StepBranchIf \/ StepBranchIfNot
        \/ StepReturn \/ StepPop \/ StepNoop

SpecVM == VmInit /\ [][VmNext]_vars

----------------------------------------------------------------------------
(* SpecLoad: a machine is given symbols and modules, then runs a function *)

MaxLoads == 2

StdPrintln == <<"_", ".", "s", "t", "d", ".", "p", "r", "i", "n", "t", "l", "n">>
ConstructorPath == <<"_", ".", "n">>

\* mod foo, and what follows it, compiled
Compiled(stmts) == CompileModule(<<StatementMod(PathWithName(NameFoo))>> \o stmts)

\* defn p() { local c; if c { return } }
ModuleIf == Compiled(<<StatementDefn(<<"p">>, <<>>, IfBody)>>)
\* defn m() { bar() }
ModuleCall == Compiled(<<StatementDefn(<<"m">>, <<>>, CallBody)>>)
\* defn bar() { return }; defn m() { bar() }
ModuleCallee ==
    Compiled(<<StatementDefn(NameBar, <<>>, ReturnBody),
               StatementDefn(<<"m">>, <<>>, <<StatementCall(PathWithName(NameBar), <<>>)>>)>>)
\* const @h = _.n "h"; defn a() { return }
ModuleConst ==
    Compiled(<<StatementConst(<<"@", "h">>, PathWithName(ConstructorPath), <<"h">>),
               StatementDefn(NameA, <<>>, ReturnBody)>>)
\* defn a() { _.std.println() }
ModulePrintln ==
    Compiled(<<StatementDefn(NameA, <<>>,
                 <<StatementCall(PathNew(<<<<"_">>, <<"s", "t", "d">>,
                                           <<"p", "r", "i", "n", "t", "l", "n">>>>), <<>>),
                   StatementReturn>>)>>)

\* A CompiledModule put together field by field (the fields are public):
\* named foo, with a constant, a static, and a LoadConst whose operand is
\* the site of a ConstPath relocation
ModuleLoadConst ==
    [kind |-> "ok", name |-> NameFoo,
     code |-> compile_ops(<<BFnEntry(0), BLoadConst(0), BReturn>>),
     functions |-> << <<<<"m", "a", "i", "n">>, 0>> >>,
     consts |-> << <<<<"@", "h">>, ConstructorPath, <<"h">>>> >>,
     statics |-> << <<"$", "s">> >>,
     relocations |-> <<[site |-> 4, target |-> [t |-> "ConstPath", path |-> <<"@", "h">>]]>>,
     emitted |-> <<>>]

\* Another, with the instructions the compiler does not emit, and two
\* InternalAddress relocations
ModuleOps ==
    [kind |-> "ok", name |-> NameBar,
     code |-> compile_ops(<<BFnEntry(1), BPushAddress(0), BSetLocal(0), BGetLocal(0),
                            BBranchIfNot(0), BPushAddress(0), BPop, BNoop,
                            BPushAddress(0), BInvoke(0), BReturn>>),
     functions |-> << <<<<"o">>, 0>> >>,
     consts |-> <<>>, statics |-> <<>>,
     relocations |-> <<[site |-> 19, target |-> InternalAddress(27)],
                       [site |-> 39, target |-> InternalAddress(49)]>>,
     emitted |-> <<>>]

LoadModules ==
    {ModuleIf, ModuleCall, ModuleCallee, ModuleConst, ModulePrintln, ModuleLoadConst, ModuleOps}

\* What the embedder binds with set_symbol
Bindings ==
    { <<NameBar, Defn(0)>>, <<NameBar, Defn(4)>>,
      <<ConstructorPath, Primitive("string_new")>>,
      <<ConstructorPath, Primitive("string_new_wild")>>,
      <<ConstructorPath, Primitive("builtin_println")>> }

\* Machine::new()
LoadInit ==
    /\ endian \in Endians
    /\ code = <<>> /\ ip = 0 /\ stack = <<>> /\ call_stack = <<>> /\ heap = <<>>
    /\ symbol_table = <<>> /\ loads = <<>>
    /\ status = Idle /\ executed = None /\ call_sites = <<>>
    /\ pmode = "new" /\ pSegments = <<>> /\ pString = <<>>
    /\ path = None /\ rendered = None /\ parsed = None
    /\ bop = None /\ junk = <<>> /\ bytes = None /\ decoded = None
    /\ searchImpl = "lim" /\ module_stmts = <<>> /\ fn_body = <<>>
    /\ validated = None /\ compiled = None

\* No call of load_module has panicked, and execute has not been called
Loading == status = Idle /\ (IF Len(loads) = 0 THEN TRUE ELSE loads[Len(loads)].kind = "ok")

\* Machine::add_std
add_std ==
    /\ Loading
    /\ ~has_symbol(symbol_table, StdPrintln)
    /\ symbol_table' = set_symbol(symbol_table, StdPrintln, Primitive("builtin_println"))
    /\ UNCHANGED <<loads, vmVars>> /\ UNCHANGED notMachine

\* machine.symbol_table.set_symbol(key, value), by the embedder
DoSetSymbol ==
    /\ Loading
    /\ \E b \in Bindings :
          /\ ~has_symbol(symbol_table, b[1])
          /\ symbol_table' = set_symbol(symbol_table, b[1], b[2])
    /\ UNCHANGED <<loads, vmVars>> /\ UNCHANGED notMachine

\* The machine as load_module left it, and the call noted
LoadedAs(cm, result) ==
    /\ code' = result.machine.code
    /\ ip' = result.machine.ip
    /\ stack' = result.machine.stack
    /\ call_stack' = result.machine.call_stack
    /\ symbol_table' = result.machine.symbol_table
    /\ heap' = result.heap
    /\ loads' = Append(loads,
          [module |-> cm, base |-> Len(code), kind |-> result.kind,
           err |-> result.err, path |-> result.path,
           before |-> MachineOf(code, call_stack, ip, stack, symbol_table),
           after_consts |-> result.after_consts,
           constructed |-> result.constructed])

\* machine.load_module(&cm)
DoLoadModule ==
    /\ Loading
    /\ Len(loads) < MaxLoads
    /\ \E cm \in LoadModules :
          LoadedAs(cm, load_module(MachineOf(code, call_stack, ip, stack, symbol_table),
                                   heap, cm))
    /\ UNCHANGED <<status, executed, call_sites>> /\ UNCHANGED notMachine

\* The addresses the functions of the loaded modules were put at
EntryAddresses ==
    UNION { {loads[i].base + loads[i].module.functions[f][2] :
                 f \in 1..Len(loads[i].module.functions)} : i \in 1..Len(loads) }

\* The embedder sets ip to the entry of a function, with or without a frame
\* for it on call_stack (a frame that may hold a boxed value in a slot), and
\* calls execute
DoExecute ==
    /\ Loading
    /\ ip' \in EntryAddresses
    /\ \E frames \in {<<>>, <<Frame(0, <<>>, <<>>)>>, <<Frame(0, <<>>, <<Len(heap) + 1>>)>>} :
          /\ call_stack' = frames
          /\ heap' = IF Len(frames) > 0 /\ Len(frames[1].slots) > 0
                     THEN Append(heap, AddrBox(9)) ELSE heap
    /\ call_sites' = [i \in 1..Len(call_stack') |-> None]
    /\ status' = Running
    /\ UNCHANGED <<code, stack, executed, loadVars>> /\ UNCHANGED notMachine

LoadNext ==
    add_std \/ DoSetSymbol \/ DoLoadModule \/ DoExecute
        \/ StepDecodePanic \/ StepFnEntry \/ StepGetLocal \/ StepSetLocal \/ StepCall
        \/ StepInvoke \/ StepPushAddress \/ StepBranchIf \/ StepBranchIfNot
        \/ StepReturn \/ StepPop \/ StepNoop

SpecLoad == LoadInit /\ [][LoadNext]_vars

----------------------------------------------------------------------------
(* SpecConsts: a machine is given constructors, then modules with constants *)

SecondConstructorPath == <<"_", ".", "p">>

\* const @h = _.n "h"; const @k = _.p "k"; defn a() { return }
ModuleTwoConsts ==
    Compiled(<<StatementConst(<<"@", "h">>, PathWithName(ConstructorPath), <<"h">>),
               StatementConst(<<"@", "k">>, PathWithName(SecondConstructorPath), <<"k">>),
               StatementDefn(NameA, <<>>, ReturnBody)>>)
\* const @k = _.p "k"; const @h = _.n "h"; defn a() { return }
ModuleTwoConstsSwapped ==
    Compiled(<<StatementConst(<<"@", "k">>, PathWithName(SecondConstructorPath), <<"k">>),
               StatementConst(<<"@", "h">>, PathWithName(ConstructorPath), <<"h">>),
               StatementDefn(NameA, <<>>, ReturnBody)>>)

ConstModules == {ModuleConst, ModuleTwoConsts, ModuleTwoConstsSwapped}

\* What the embedder binds the constructor paths to
ConstructorBindings ==
    {<<p, v>> : p \in {ConstructorPath, SecondConstructorPath},
                v \in {Primitive(f) : f \in PrimitiveNames} \cup {Defn(0)}}

\* machine.symbol_table.set_symbol(path, value), by the embedder
DoSetConstructor ==
    /\ Loading
    /\ \E b \in ConstructorBindings :
          /\ ~has_symbol(symbol_table, b[1])
          /\ symbol_table' = set_symbol(symbol_table, b[1], b[2])
    /\ UNCHANGED <<loads, vmVars>> /\ UNCHANGED notMachine

\* machine.load_module(&cm) of a module with constants
DoLoadConsts ==
    /\ Loading
    /\ Len(loads) < MaxLoads
    /\ \E cm \in ConstModules :
          LoadedAs(cm, load_module(MachineOf(code, call_stack, ip, stack, symbol_table),
                                   heap, cm))
    /\ UNCHANGED <<status, executed, call_sites>> /\ UNCHANGED notMachine

ConstsNext == DoSetConstructor \/ DoLoadConsts

SpecConsts == LoadInit /\ [][ConstsNext]_vars

----------------------------------------------------------------------------
(* Claims about asm::Path *)

IsSigiled(segment) == StartsWith(segment, "@") \/ StartsWith(segment, "$")

NoInnerSigil(segments) == \A i \in 1..(Len(segments) - 1) : ~IsSigiled(segments[i])

\* The same rule read off the string: a sigil that opens a piece (at the
\* start, or right after a separator) has no separator after it.
StringHasNoInnerSigil(s) ==
    \A i \in 1..Len(s) :
        (s[i] \in {"@", "$"} /\ (i = 1 \/ s[i - 1] = "."))
            => \A j \in (i + 1)..Len(s) : s[j] # "."

\* C2: Path::new and Path::from_str succeed if and only if no segment other
\* than the last begins with '@' or '$'; a constructed Path holds the
\* segments it was given, so all its non-final segments are unsigiled
\* ("a.b.@c" succeeds with last segment "@c", "a.@b.c" and "$a.b" fail).
C2_PathConstruction ==
    /\ path # None =>
          /\ path.kind = "ok" <=> NoInnerSigil(pSegments)
          /\ path.kind = "ok" => path.segments = pSegments /\ NoInnerSigil(path.segments)
          /\ path.kind # "ok" => path.kind = "err" /\ path.err = "InvalidSegment"
    /\ (pmode = "str" /\ parsed # None) =>
          /\ parsed.kind = "ok" <=> StringHasNoInnerSigil(pString)
          /\ parsed.kind = "ok" =>
                /\ NoInnerSigil(parsed.segments)
                /\ Join(parsed.segments, ".") = pString
          /\ pString = <<"a", ".", "b", ".", "@", "c">> =>
                parsed = PathOk(<< <<"a">>, <<"b">>, <<"@", "c">> >>)
          /\ pString \in { <<"a", ".", "@", "b", ".", "c">>, <<"$", "a", ".", "b">> } =>
                parsed.kind = "err"

\* "a.b.@c" has been parsed into a Path whose last segment carries the sigil.
C2_Witness ==
    /\ pmode = "str" /\ pString = <<"a", ".", "b", ".", "@", "c">>
    /\ parsed.kind = "ok" /\ Len(parsed.segments) = 3
    /\ IsSigiled(parsed.segments[3])

NoDots(segments) == \A i \in 1..Len(segments) : \A j \in 1..Len(segments[i]) : segments[i][j] # "."

\* C3: for every Path p built from segments that contain no '.' and obey the
\* sigil rule, Path::from_str of the '.'-joined string form of p equals p.
C3_RoundTrip ==
    (pmode = "new" /\ path.kind = "ok" /\ NoDots(pSegments) /\ parsed # None)
        => parsed = path

\* The round trip of C3 for the Paths that have at least one segment.
RoundTripNonEmpty ==
    (pmode = "new" /\ path.kind = "ok" /\ NoDots(pSegments) /\ parsed # None
        /\ Len(pSegments) > 0)
        => parsed = path

----------------------------------------------------------------------------
(* Claims about the bytecode ops *)

----------------------------------------------------------------------------
(* Claims about Module::validate *)

TopLevelKinds == {"Mod", "Extern", "Const", "Static", "Defn"}

AllTopLevel(stmts) == \A i \in 1..Len(stmts) : stmts[i].k \in TopLevelKinds

ModCount(stmts) == Cardinality({i \in 1..Len(stmts) : stmts[i].k = "Mod"})

\* C1 as stated: validate returns Ok exactly when every top-level statement
\* is a Mod, Extern, Const, Static or Defn and exactly one Mod is present;
\* a module with no Mod fails with MissingModStatement, one with two or more
\* Mod with MoreThanOneModStatement, and one holding any other statement
\* kind with InvalidTopLevelStatement.
C1_ValidateAsStated ==
    validated # None =>
        /\ (validated = ValidationOk)
              <=> (AllTopLevel(module_stmts) /\ ModCount(module_stmts) = 1)
        /\ ModCount(module_stmts) = 0 => validated = ValidationErr("MissingModStatement")
        /\ ModCount(module_stmts) >= 2
              => validated = ValidationErr("MoreThanOneModStatement")
        /\ ~AllTopLevel(module_stmts)
              => validated = ValidationErr("InvalidTopLevelStatement")

\* C1, with the order the errors are found in: validate returns Ok exactly
\* when every top-level statement is a Mod, Extern, Const, Static or Defn and
\* exactly one Mod is present; a module holding any other statement kind
\* fails with InvalidTopLevelStatement whatever its number of Mod statements;
\* a module of permitted statements fails with MissingModStatement when it
\* has no Mod and with MoreThanOneModStatement when it has two or more.
C1_ValidateInvalidFirst ==
    validated # None =>
        /\ (validated = ValidationOk)
              <=> (AllTopLevel(module_stmts) /\ ModCount(module_stmts) = 1)
        /\ ~AllTopLevel(module_stmts)
              => validated = ValidationErr("InvalidTopLevelStatement")
        /\ (AllTopLevel(module_stmts) /\ ModCount(module_stmts) = 0)
              => validated = ValidationErr("MissingModStatement")
        /\ (AllTopLevel(module_stmts) /\ ModCount(module_stmts) >= 2)
              => validated = ValidationErr("MoreThanOneModStatement")

\* A module with two Mod statements and a Local has been validated
C1_Witness ==
    /\ validated = ValidationErr("InvalidTopLevelStatement")
    /\ ModCount(module_stmts) = 2
    /\ \E i \in 1..Len(module_stmts) : module_stmts[i].k = "Local"

----------------------------------------------------------------------------
(* Claims about the compiler *)

\* The ops that were written, without their addresses
EmittedOps(c) == [i \in 1..Len(c.emitted) |-> c.emitted[i].b]

\* C5: within one function, the slot Locals.find gives for a name equals the
\* name's 0-based position in discovery order, for every collected name and
\* every discovery order; `local y` followed by `x := y` lowers to
\* FnEntry(2), GetLocal(0), SetLocal(1).
C5_SlotIsDiscoveryPosition ==
    (compiled # None /\ collect_locals(fn_body).kind = "ok") =>
        /\ \A i \in 1..Len(collect_locals(fn_body).locals) :
              LocalsFind(collect_locals(fn_body).locals, collect_locals(fn_body).locals[i])
                  = [kind |-> "ok", idx |-> i - 1]
        /\ fn_body = <<StatementLocal(NameY),
                       StatementAssignment(NameX, "AllocateAndAssign", ValueName(NameY))>>
              => /\ compiled.kind = "ok"
                 /\ EmittedOps(compiled) = <<BFnEntry(2), BGetLocal(0), BSetLocal(1)>>

\* The names a block declares by its own statements, in order
DeclaredNames(block) ==
    LET declaring == SelectSeq(block, LAMBDA s :
                         \/ s.k = "Local"
                         \/ s.k = "Assignment" /\ s.operator = "AllocateAndAssign")
    IN  [i \in 1..Len(declaring) |->
            IF declaring[i].k = "Local" THEN declaring[i].name ELSE declaring[i].lvalue]

HasDuplicate(names) == \E i, j \in 1..Len(names) : i < j /\ names[i] = names[j]

\* The bodies of the anonymous functions the statements of a block assign
FnValueBodies(block) ==
    {block[i].rvalue.body : i \in {j \in 1..Len(block) :
                                      block[j].k = "Assignment" /\ block[j].rvalue.v = "Fn"}}

\* C6: compiling a function whose body declares the same local name twice,
\* by any mix of `local` statements and `:=` assignments among the statements
\* of the body, fails with the duplicate-local error and gives no
\* CompiledModule; when the declared names of the body, and of every
\* anonymous function in it, are pairwise distinct, that error is not raised.
C6_DuplicateLocal ==
    compiled # None =>
        /\ HasDuplicate(DeclaredNames(fn_body))
              => compiled = CompiledPanic("LocalAlreadyExists")
        /\ (/\ ~HasDuplicate(DeclaredNames(fn_body))
            /\ \A b \in FnValueBodies(fn_body) : ~HasDuplicate(DeclaredNames(b)))
              => compiled # CompiledPanic("LocalAlreadyExists")

\* A body that declares x by `local x` and again by `x := y` was compiled
C6_Witness ==
    /\ compiled = CompiledPanic("LocalAlreadyExists")
    /\ \E i, j \in 1..Len(fn_body) :
          /\ fn_body[i] = StatementLocal(NameX)
          /\ fn_body[j] = StatementAssignment(NameX, "AllocateAndAssign", ValueName(NameY))

HasAddressOperand(b) == b.op \in {"Call", "PushAddress", "BranchIf", "BranchIfNot", "LoadConst"}

RECURSIVE SumOfSizes(_)
SumOfSizes(emitted) ==
    IF Len(emitted) = 0 THEN 0 ELSE Len(ToBinary(emitted[1].b)) + SumOfSizes(Tail(emitted))

\* C7: for every module that passes validation, Static and Extern statements
\* included, compile gives a code vector whose length is the sum of the
\* encoded sizes of the emitted instructions, and every relocation's site
\* has site + 8 <= len(code) and is the first byte of the 8-byte address
\* operand of an emitted instruction.
C7_CodeAndSites ==
    (compiled # None /\ Validate(module_stmts) = ValidationOk) =>
        /\ compiled.kind = "ok"
        /\ Len(compiled.code) = SumOfSizes(compiled.emitted)
        /\ \A r \in 1..Len(compiled.relocations) :
              /\ compiled.relocations[r].site + 8 <= Len(compiled.code)
              /\ \E e \in 1..Len(compiled.emitted) :
                    /\ HasAddressOperand(compiled.emitted[e].b)
                    /\ compiled.relocations[r].site = compiled.emitted[e].at + 1

\* The path of the Mod statement of a module that has one
ModPathOf(stmts) == stmts[CHOOSE i \in 1..Len(stmts) : stmts[i].k = "Mod"].path

DefnsOf(stmts) == SelectSeq(stmts, LAMBDA s : s.k = "Defn")

\* C8: for a module whose Mod statement has path P, compile gives a
\* CompiledModule with name = P.to_string() and with functions holding, for
\* each Defn d in order, (P.to_string() + "." + d.name, offset of d's
\* FnEntry); module foo with `defn a() { return }` alone gives functions
\* [("foo.a", 0)], code FnEntry(0), Return and no relocations.
C8_NameAndFunctions ==
    (compiled # None /\ compiled.kind = "ok" /\ ModCount(module_stmts) = 1) =>
        /\ compiled.name = PathToString(ModPathOf(module_stmts))
        /\ Len(compiled.functions) = Len(DefnsOf(module_stmts))
        /\ \A i \in 1..Len(compiled.functions) :
              /\ compiled.functions[i][1]
                    = PathToString(ModPathOf(module_stmts)) \o <<".">>
                         \o DefnsOf(module_stmts)[i].name
              /\ \E e \in 1..Len(compiled.emitted) :
                    /\ compiled.emitted[e].at = compiled.functions[i][2]
                    /\ compiled.emitted[e].b.op = "FnEntry"
        /\ module_stmts = <<StatementMod(PathWithName(NameFoo)),
                            StatementDefn(NameA, <<>>, ReturnBody)>>
              => /\ compiled.functions = <<<<NameFoo \o <<".">> \o NameA, 0>>>>
                 /\ EmittedOps(compiled) = <<BFnEntry(0), BReturn>>
                 /\ compiled.relocations = <<>>

Bops(ops) == [i \in 1..Len(ops) |-> ops[i].b]

SizeOf(ops) == Len(compile_ops(Bops(ops)))

\* The ops of an If are the ops of its condition, the branch, the ops of its
\* Then and a Noop; one relocation has the address operand of the branch as
\* its site, and its target is the module-local offset of the Noop.  offset
\* is where the ops of the If start.
IfLoweredAs(branch, whole, cond, then_ops, offset) ==
    /\ whole.err = ""
    /\ Bops(whole.ops) = Bops(cond.ops) \o <<branch>> \o Bops(then_ops.ops) \o <<BNoop>>
    /\ \E e \in 1..Len(compiled.emitted) :
          compiled.emitted[e] = [at |-> offset + SizeOf(cond.ops), b |-> branch]
    /\ \E e \in 1..Len(compiled.emitted) :
          compiled.emitted[e] = [at |-> offset + SizeOf(cond.ops) + 9 + SizeOf(then_ops.ops),
                                 b |-> BNoop]
    /\ Cardinality({r \in 1..Len(compiled.relocations) :
                       compiled.relocations[r].site = offset + SizeOf(cond.ops) + 1}) = 1
    /\ \A r \in 1..Len(compiled.relocations) :
          compiled.relocations[r].site = offset + SizeOf(cond.ops) + 1
              => compiled.relocations[r].target
                    = InternalAddress(offset + SizeOf(cond.ops) + 9 + SizeOf(then_ops.ops))

\* The If at place i of the body, after the FnEntry and the ops of the
\* statements before it
IfAt(branch, i, lc, before) ==
    IfLoweredAs(branch,
                CompileStatement(fn_body[i], lc, before.m),
                CompileBlock(fn_body[i].condition, lc, before.m),
                CompileBlock(fn_body[i].then_body, lc, before.m),
                Len(ToBinary(BFnEntry(0))) + SizeOf(before.ops))

IfsLowerWith(branch) ==
    (compiled # None /\ compiled.kind = "ok") =>
        /\ \A i \in 1..Len(fn_body) :
              fn_body[i].k = "If"
                 => IfAt(branch, i, SomeContext(collect_locals(fn_body).locals),
                         CompileBlock(SubSeq(fn_body, 1, i - 1),
                                      SomeContext(collect_locals(fn_body).locals), NewModule))
        /\ fn_body = <<StatementLocal(NameC),
                       StatementIf(<<StatementTest(NameC)>>, <<StatementReturn>>)>>
              => /\ EmittedOps(compiled)
                       = <<BFnEntry(1), BGetLocal(0), branch, BReturn, BNoop>>
                 /\ compiled.relocations = <<[site |-> 7, target |-> InternalAddress(16)]>>

----------------------------------------------------------------------------
(* Claims about the interpreter *)

\* The pointer below the n topmost values of a stack
Below(stk, n) == stk[Len(stk) - n]

\* The instruction run last was a Call or Invoke that found its n values on
\* the stack, and for Invoke a live address box below them
CallHadItsValues ==
    /\ executed # None
    /\ \/ executed.op.op = "Call" /\ Len(executed.stack) >= executed.op.num_args
       \/ /\ executed.op.op = "Invoke"
          /\ Len(executed.stack) >= executed.op.num_args + 1
          /\ Below(executed.stack, executed.op.num_args) # Null
          /\ executed.heap[Below(executed.stack, executed.op.num_args)].live

\* C10: Call(addr, n) or Invoke(n) run with at least n values on the stack
\* (and the address box below them for Invoke), for every n >= 0, pops those
\* n values into the args of a new frame in the order they were pushed,
\* pushes that one frame with return_addr = the address of the next
\* instruction and empty slots, and sets ip to addr (Call) or to the address
\* popped after the arguments (Invoke).
C10_CallBuildsFrame ==
    CallHadItsValues =>
        /\ status = Running
        /\ call_stack = Append(executed.call_stack,
              Frame(executed.next,
                    SubSeq(executed.stack, Len(executed.stack) - executed.op.num_args + 1,
                           Len(executed.stack)),
                    <<>>))
        /\ stack = SubSeq(executed.stack, 1,
                          Len(executed.stack) - executed.op.num_args
                              - (IF executed.op.op = "Invoke" THEN 1 ELSE 0))
        /\ ip = IF executed.op.op = "Call" THEN executed.op.addr
                ELSE executed.heap[Below(executed.stack, executed.op.num_args)].value

\* The instruction run last was a Return
Returned == executed # None /\ executed.op.op = "Return"

\* The frame a Return found on top of call_stack, and the Call or Invoke
\* that had pushed it
ReturnedFrame == executed.call_stack[Len(executed.call_stack)]
ReturnedSite == executed.call_sites[Len(executed.call_sites)]

\* C11: Return pops exactly the top frame of call_stack and sets ip to that
\* frame's return_addr, leaving the value stack alone; when the frame was
\* pushed by a Call or Invoke at address a, ip is then the address of the
\* instruction following a and call_stack has the depth it had before that
\* Call.  Return with an empty call_stack is a panic: execute ends there,
\* with ip still at the Return and nothing else changed.
C11_ReturnPopsTopFrame ==
    Returned =>
        IF executed.call_stack = <<>>
        THEN /\ status = Panicked("UnwrapNone")
             /\ ip = executed.at /\ call_stack = <<>> /\ stack = executed.stack
        ELSE /\ status = Running
             /\ call_stack = Front(executed.call_stack)
             /\ stack = executed.stack
             /\ ip = ReturnedFrame.return_addr
             /\ ReturnedSite # None =>
                   /\ FromBinary(code, ReturnedSite.at).kind = "ok"
                   /\ FromBinary(code, ReturnedSite.at).op.op \in {"Call", "Invoke"}
                   /\ ip = FromBinary(code, ReturnedSite.at).pos
                   /\ Len(call_stack) = ReturnedSite.depth

\* A Call has been run and the Return of its callee has come back to the
\* instruction after it
C11_Witness ==
    /\ Returned /\ status = Running
    /\ executed.call_stack # <<>> /\ ReturnedSite # None
    /\ FromBinary(code, ReturnedSite.at).op.op = "Call"
    /\ ip = ReturnedSite.next

\* A Return has been run with no frame on call_stack
C11_WitnessEmpty ==
    Returned /\ executed.call_stack = <<>> /\ status = Panicked("UnwrapNone")

\* The instruction run last was the Return that popped the last frame
LastFramePopped ==
    Returned /\ executed.call_stack # <<>> /\ call_stack = <<>>

\* C12: once call_stack has become empty through Return, execute runs no
\* further instruction: no step is taken from a state whose last
\* instruction was the Return that popped the last frame.
C12_StopsAfterLastReturn == [][~LastFramePopped]_vars

----------------------------------------------------------------------------
(* Claims about load_module *)

\* The calls of load_module that completed
LoadsDone == {i \in 1..Len(loads) : loads[i].kind = "ok"}

\* The relocations of the module of the i-th call whose target is a t
RelocationsOf(i, t) ==
    {r \in 1..Len(loads[i].module.relocations) : loads[i].module.relocations[r].target.t = t}

\* The u64 in the code of the machine at the site of relocation r of the
\* module of the i-th call
OperandAt(i, r) ==
    read_addr(code, loads[i].base + loads[i].module.relocations[r].site).value

\* What the path of relocation r of the i-th call was bound to when the
\* relocations were gone through
BoundAt(i, r) ==
    loads[i].after_consts.symbol_table[loads[i].module.relocations[r].target.path]

\* After load_module has completed, the operand at the site of every
\* ExternalFunctionPath relocation is the address of the Defn its path is
\* bound to
ExternalSitesHoldDefn ==
    \A i \in LoadsDone : \A r \in RelocationsOf(i, "ExternalFunctionPath") :
        /\ BoundAt(i, r).t = "Defn"
        /\ OperandAt(i, r) = BoundAt(i, r).addr

QualifiedKey(module_name, local_name) == module_name \o <<".">> \o local_name

\* C14: after load_module(m) has completed with base the length of code
\* before the call, the symbol table binds m.name + "." + name to
\* Defn(base + entry-offset) for every (name, entry-offset) of m.functions,
\* and binds every name of m.statics to a Static under its qualified key.
C14_FunctionsAndStaticsBound ==
    \A i \in LoadsDone :
        /\ loads[i].base = Len(loads[i].before.code)
        /\ \A f \in 1..Len(loads[i].module.functions) :
              /\ has_symbol(symbol_table,
                            QualifiedKey(loads[i].module.name, loads[i].module.functions[f][1]))
              /\ symbol_table[QualifiedKey(loads[i].module.name, loads[i].module.functions[f][1])]
                    = Defn(loads[i].base + loads[i].module.functions[f][2])
        /\ \A s \in 1..Len(loads[i].module.statics) :
              /\ has_symbol(symbol_table,
                            QualifiedKey(loads[i].module.name, loads[i].module.statics[s]))
              /\ symbol_table[QualifiedKey(loads[i].module.name, loads[i].module.statics[s])].t
                    = "Static"

\* The keys whose binding the constants step of the i-th call made or changed
KeysBoundByConsts(i) ==
    {k \in DOMAIN loads[i].after_consts.symbol_table :
        \/ k \notin DOMAIN loads[i].before.symbol_table
        \/ loads[i].before.symbol_table[k] # loads[i].after_consts.symbol_table[k]}

\* C15: load_consts leaves the stack, call_stack, ip and code of the
\* loading machine as they were, whatever the constructors do to the machine
\* they are handed; it loses no binding of the symbol table, and every
\* binding it makes or changes is a Const.
C15_ConstsLeaveMachineAlone ==
    \A i \in 1..Len(loads) :
        /\ loads[i].after_consts.stack = loads[i].before.stack
        /\ loads[i].after_consts.call_stack = loads[i].before.call_stack
        /\ loads[i].after_consts.ip = loads[i].before.ip
        /\ loads[i].after_consts.code = loads[i].before.code
        /\ DOMAIN loads[i].before.symbol_table \subseteq DOMAIN loads[i].after_consts.symbol_table
        /\ \A k \in KeysBoundByConsts(i) : loads[i].after_consts.symbol_table[k].t = "Const"

\* A module with a constant has been loaded behind another, by a
\* constructor that writes to every field of the machine it is handed
C15_Witness ==
    \E i \in LoadsDone :
        /\ Len(loads[i].module.consts) > 0
        /\ loads[i].before.code # <<>>
        /\ loads[i].before.symbol_table[ConstructorPath] = Primitive("string_new_wild")
        /\ KeysBoundByConsts(i) # {}

\* The instruction whose first operand is at the site of relocation r of
\* the module of the i-th call
InstructionAt(i, r) ==
    FromBinary(code, loads[i].base + loads[i].module.relocations[r].site - 1)

\* C16: for every InternalAddress(off) relocation at site-offset s of a
\* module loaded at base b, b the length of code before the load, the eight
\* bytes at b + s are b + off in host order after load_module; the operand
\* of a BranchIf so relocated is the address of a Noop, whatever the base.
C16_InternalAddressRebased ==
    \A i \in LoadsDone : \A r \in RelocationsOf(i, "InternalAddress") :
        /\ loads[i].base = Len(loads[i].before.code)
        /\ SubSeq(code, loads[i].base + loads[i].module.relocations[r].site + 1,
                        loads[i].base + loads[i].module.relocations[r].site + 8)
              = HostBytes(loads[i].base + loads[i].module.relocations[r].target.addr, 8)
        /\ OperandAt(i, r) = loads[i].base + loads[i].module.relocations[r].target.addr
        /\ InstructionAt(i, r).kind = "ok"
        /\ InstructionAt(i, r).op.op = "BranchIf" =>
              /\ InstructionAt(i, r).op.dest > loads[i].base
              /\ FromBinary(code, InstructionAt(i, r).op.dest).kind = "ok"
              /\ FromBinary(code, InstructionAt(i, r).op.dest).op = BNoop

\* A module with a compiled If has been loaded behind another
C16_Witness ==
    \E i \in LoadsDone : \E r \in RelocationsOf(i, "InternalAddress") :
        /\ loads[i].base > 0
        /\ InstructionAt(i, r).kind = "ok"
        /\ InstructionAt(i, r).op.op = "BranchIf"

\* The i-th call of load_module panicked over a relocation whose symbol is
\* not in the symbol table (the constructors of its constants were all found)
UnresolvedRelocation(i) ==
    /\ loads[i].kind = "panic"
    /\ loads[i].err \in {"SymbolNotFoundInSymbolTable", "SymbolNotFound"}
    /\ \A c \in 1..Len(loads[i].module.consts) :
          has_symbol(loads[i].before.symbol_table, loads[i].module.consts[c][2])

\* The symbols the relocations of the module of the i-th call look up
RelocationKeys(i) ==
    {loads[i].module.relocations[r].target.path : r \in RelocationsOf(i, "ExternalFunctionPath")}
        \cup {ConstPathKey(loads[i].module.relocations[r].target.path, loads[i].module.name) :
                 r \in RelocationsOf(i, "ConstPath")}

\* C17: when load_module fails over an ExternalFunctionPath or ConstPath
\* relocation whose symbol is not in the symbol table, the failure names
\* that symbol and the machine is as it was before the call: code has the
\* length and contents it had, and the symbol table has no binding the
\* failed load added, the constants of the module included.
C17_FailedLoadLeavesMachine ==
    \A i \in 1..Len(loads) :
        UnresolvedRelocation(i) =>
            /\ loads[i].path \in RelocationKeys(i)
            /\ ~has_symbol(loads[i].after_consts.symbol_table, loads[i].path)
            /\ code = loads[i].before.code
            /\ symbol_table = loads[i].before.symbol_table

\* C18: the bytes that are in code stay as they are: a call of load_module
\* writes only at offsets from the length code had when the call began, and
\* no instruction of the interpreter writes to code.
C18_LoadedCodeIsNotWritten ==
    [][Len(code') >= Len(code) /\ SubSeq(code', 1, Len(code)) = code]_vars

\* Two modules have been loaded, the second with relocations that were
\* patched, and an instruction has been run
C18_Witness ==
    /\ Len(loads) = 2 /\ LoadsDone = {1, 2}
    /\ Len(loads[2].module.relocations) > 0
    /\ executed # None

\* Relocation r of the module of the i-th call is an ExternalFunctionPath
\* whose path was bound to a Primitive when the relocations were gone through
PrimitiveTarget(i, r) ==
    /\ loads[i].module.relocations[r].target.t = "ExternalFunctionPath"
    /\ has_symbol(loads[i].after_consts.symbol_table, loads[i].module.relocations[r].target.path)
    /\ BoundAt(i, r).t = "Primitive"

\* The instruction run last was the Call at the site of relocation r of the
\* module of the i-th call
CalledAt(i, r) ==
    /\ executed # None
    /\ executed.op.op = "Call"
    /\ executed.at = loads[i].base + loads[i].module.relocations[r].site - 1

\* C19: load_module accepts an ExternalFunctionPath relocation whose path is
\* bound to a Primitive: it does not fail over that relocation, and once the
\* load has completed, the Call at that site, when it is run, leaves
\* call_stack as it was and goes on with the instruction that follows it.
C19_PrimitiveTargetAccepted ==
    \A i \in 1..Len(loads) : \A r \in 1..Len(loads[i].module.relocations) :
        PrimitiveTarget(i, r) =>
            /\ ~(loads[i].kind = "panic"
                    /\ loads[i].path = loads[i].module.relocations[r].target.path)
            /\ (loads[i].kind = "ok" /\ CalledAt(i, r)) =>
                  /\ status = Running
                  /\ ip = executed.next
                  /\ call_stack = executed.call_stack

\* The key relocation r (a ConstPath) of the module of the i-th call looks up
ConstKeyAt(i, r) ==
    ConstPathKey(loads[i].module.relocations[r].target.path, loads[i].module.name)

\* C20: for every ConstPath(p) relocation of a module named M that has been
\* loaded, the key looked up is M + "." + p when p starts with '@' or '$'
\* and p otherwise; for a constant of the module it is bound to the Const
\* made in the constants step of the same load; and the operand at the site
\* holds the pointer of that constant, which is not the 0 the compiler put
\* there.
C20_ConstSitesHoldConstant ==
    \A i \in LoadsDone : \A r \in RelocationsOf(i, "ConstPath") :
        /\ has_symbol(loads[i].after_consts.symbol_table, ConstKeyAt(i, r))
        /\ loads[i].after_consts.symbol_table[ConstKeyAt(i, r)].t = "Const"
        /\ (\E c \in 1..Len(loads[i].module.consts) :
               loads[i].module.consts[c][1] = loads[i].module.relocations[r].target.path)
              => ConstKeyAt(i, r) \in KeysBoundByConsts(i)
        /\ OperandAt(i, r) # 0
        /\ OperandAt(i, r) = loads[i].after_consts.symbol_table[ConstKeyAt(i, r)].ptr

----------------------------------------------------------------------------
(* Claims about asm::Path: segment count *)

\* C25: every Path that has been constructed has at least one segment, so
\* ends_with_const and ends_with_static return a boolean and do not fail.
C25_PathHasASegment ==
    (path # None /\ path.kind = "ok") =>
        /\ Len(path.segments) >= 1
        /\ ends_with_const(path).kind = "ok"
        /\ ends_with_static(path).kind = "ok"

----------------------------------------------------------------------------
(* Claims about anonymous functions *)

\* A statement of the body assigns an anonymous function
AssignsFn(body) ==
    \E i \in 1..Len(body) : body[i].k = "Assignment" /\ body[i].rvalue.v = "Fn"

\* The relocations of a compiled module that belong to a PushAddress: the
\* site is the byte after the opcode, the target the offset of a FnEntry
PushAddressRelocated(cm) ==
    \E e \in 1..Len(cm.emitted) :
        /\ cm.emitted[e].b = BPushAddress(0)
        /\ \E r \in 1..Len(cm.relocations) :
              /\ cm.relocations[r].site = cm.emitted[e].at + 1
              /\ cm.relocations[r].target.t = "InternalAddress"
              /\ \E f \in 1..Len(cm.emitted) :
                    /\ cm.emitted[f].at = cm.relocations[r].target.addr
                    /\ cm.emitted[f].b.op = "FnEntry"

\* C27: compiling a function whose body assigns an anonymous Fn value adds
\* the anonymous function, emits PushAddress(0) and returns the relocation
\* (offset of the PushAddress + 1, InternalAddress(offset of the anonymous
\* function's FnEntry)); addr_field_offset is 1 for PushAddress and for
\* LoadConst, so resolve_relocations does not fail on them.
C27_AnonymousFnRelocated ==
    (compiled # None /\ AssignsFn(fn_body)) =>
        /\ addr_field_offset(BPushAddress(0)) = [kind |-> "ok", value |-> 1]
        /\ addr_field_offset(BLoadConst(0)) = [kind |-> "ok", value |-> 1]
        /\ ~(compiled.kind = "panic" /\ compiled.err = "OpHasNoAddressFields")
        /\ compiled.kind = "ok" => PushAddressRelocated(compiled)

----------------------------------------------------------------------------
(* Claims about the identity of emitted instructions *)

RECURSIVE MatchingNoop(_, _, _)
\* The place in emitted of the Noop that closes the If whose branch was
\* emitted just before place j: branches after it open an inner If, whose
\* Noop comes first
MatchingNoop(emitted, j, depth) ==
    IF j > Len(emitted) THEN 0
    ELSE IF emitted[j].b.op = "Noop"
         THEN IF depth = 0 THEN j ELSE MatchingNoop(emitted, j + 1, depth - 1)
    ELSE IF emitted[j].b.op \in {"BranchIf", "BranchIfNot"}
         THEN MatchingNoop(emitted, j + 1, depth + 1)
    ELSE MatchingNoop(emitted, j + 1, depth)

BranchesOf(cm) ==
    {e \in 1..Len(cm.emitted) : cm.emitted[e].b.op \in {"BranchIf", "BranchIfNot"}}

\* C29: emitted instructions are tracked by identity and not by their bytes:
\* in a module with several Ifs, one after another or one inside another,
\* every If's branch has one relocation of its own, whose site is the address
\* operand of that branch and whose target is the offset of the Noop of that
\* same If, and there are no other relocations of branches.
C29_EachIfHasItsOwnRelocation ==
    (compiled # None /\ compiled.kind = "ok" /\ fn_body # <<>>) =>
        /\ \A e \in BranchesOf(compiled) :
              /\ MatchingNoop(compiled.emitted, e + 1, 0) # 0
              /\ Cardinality({r \in 1..Len(compiled.relocations) :
                     compiled.relocations[r].site = compiled.emitted[e].at + 1}) = 1
              /\ \A r \in 1..Len(compiled.relocations) :
                    compiled.relocations[r].site = compiled.emitted[e].at + 1
                       => compiled.relocations[r].target
                             = InternalAddress(
                                  compiled.emitted[MatchingNoop(compiled.emitted, e + 1, 0)].at)
        /\ Cardinality({r \in 1..Len(compiled.relocations) :
              compiled.relocations[r].target.t = "InternalAddress"})
              = Cardinality(BranchesOf(compiled))

\* A function with an If inside an If, followed by another If, was compiled
C29_Witness ==
    /\ compiled # None /\ compiled.kind = "ok"
    /\ Len(fn_body) = 3
    /\ fn_body[2].k = "If" /\ fn_body[2].then_body[1].k = "If"
    /\ fn_body[3].k = "If"
    /\ Cardinality(BranchesOf(compiled)) = 3
    /\ Len(compiled.relocations) = 3

----------------------------------------------------------------------------
(* Claims about the slots of a frame *)

\* The top frame of a call stack
TopFrame(frames) == frames[Len(frames)]

\* The instruction run last, which found a frame on the call stack
RanInFrame(variant) ==
    /\ executed # None
    /\ executed.op.op = variant
    /\ Len(executed.call_stack) > 0

\* The frames below the top frame are the ones the instruction found
FramesBelowKept ==
    /\ Len(call_stack) = Len(executed.call_stack)
    /\ Front(call_stack) = Front(executed.call_stack)
    /\ TopFrame(call_stack).args = TopFrame(executed.call_stack).args
    /\ TopFrame(call_stack).return_addr = TopFrame(executed.call_stack).return_addr

\* GetLocal(i) with i below the number of slots pushes slots[i] and leaves
\* the frames alone; SetLocal(i) with i below the number of slots pops one
\* value and stores it in slots[i], leaving the other slots alone; FnEntry,
\* GetLocal and SetLocal (with a value to pop) on an empty call_stack end
\* execute with a panic.
LocalsReadAndWritten ==
    /\ (RanInFrame("GetLocal")
          /\ executed.op.idx < Len(TopFrame(executed.call_stack).slots)) =>
          /\ status = Running
          /\ stack = Append(executed.stack,
                            TopFrame(executed.call_stack).slots[executed.op.idx + 1])
          /\ call_stack = executed.call_stack
    /\ (RanInFrame("SetLocal") /\ Len(executed.stack) > 0
          /\ executed.op.idx < Len(TopFrame(executed.call_stack).slots)) =>
          /\ status = Running
          /\ stack = Front(executed.stack)
          /\ FramesBelowKept
          /\ TopFrame(call_stack).slots
                = [TopFrame(executed.call_stack).slots
                      EXCEPT ![executed.op.idx + 1] = executed.stack[Len(executed.stack)]]
    /\ (executed # None /\ Len(executed.call_stack) = 0
          /\ \/ executed.op.op \in {"FnEntry", "GetLocal"}
             \/ executed.op.op = "SetLocal" /\ Len(executed.stack) > 0) =>
          /\ status = Panicked("UnwrapNone")
          /\ call_stack = <<>>

\* C26 as stated: FnEntry(n) run in a frame sets the slots of that frame
\* to length n with every slot null; GetLocal(i) and SetLocal(i) with i < n
\* read and write slots[i] alone; each of the three needs a current frame,
\* and FnEntry on an empty call_stack is a fatal error.
C26_FnEntryNullsEverySlot ==
    /\ LocalsReadAndWritten
    /\ RanInFrame("FnEntry") =>
          /\ status = Running
          /\ FramesBelowKept
          /\ Len(TopFrame(call_stack).slots) = executed.op.num_locals
          /\ \A j \in 1..executed.op.num_locals : TopFrame(call_stack).slots[j] = Null

\* C26, with what resize does: FnEntry(n) run in a frame sets the slots of
\* that frame to length n, where the slots the frame already had keep their
\* values and the added slots are null, so that in a frame fresh from Call
\* or Invoke every slot is null; GetLocal(i) and SetLocal(i) with i < n read
\* and write slots[i] alone; each of the three needs a current frame, and
\* FnEntry on an empty call_stack is a fatal error.
C26_FnEntryResizesSlots ==
    /\ LocalsReadAndWritten
    /\ RanInFrame("FnEntry") =>
          /\ status = Running
          /\ FramesBelowKept
          /\ Len(TopFrame(call_stack).slots) = executed.op.num_locals
          /\ \A j \in 1..executed.op.num_locals :
                TopFrame(call_stack).slots[j]
                   = IF j <= Len(TopFrame(executed.call_stack).slots)
                     THEN TopFrame(executed.call_stack).slots[j]
                     ELSE Null

\* FnEntry ran in a frame whose slot held a value, and in a fresh frame
C26_Witness ==
    /\ RanInFrame("FnEntry")
    /\ status = Running
    /\ TopFrame(executed.call_stack).slots # <<>>
    /\ TopFrame(executed.call_stack).slots[1] # Null
    /\ TopFrame(call_stack).slots[1] # Null

----------------------------------------------------------------------------
(* Claims about the ownership of value pointers *)

RECURSIVE HeldByFrames(_)
\* The pointers in the args and slots of the frames of a call stack
HeldByFrames(frames) ==
    IF Len(frames) = 0 THEN <<>>
    ELSE frames[1].args \o frames[1].slots \o HeldByFrames(Tail(frames))

\* Every place that holds a value pointer: the value stack, then the args
\* and slots of every frame
Held == stack \o HeldByFrames(call_stack)

\* C23: the VM never copies a value pointer: each non-null pointer is held
\* in at most one place among the value stack, the frame args and the frame
\* slots, and no pointer whose box was consumed (taken back with into_box and
\* dropped) is still held by a slot or by the stack.
C23_PointersHeldOnce ==
    (status = Running) =>
        /\ \A i, j \in 1..Len(Held) : (i # j /\ Held[i] # Null) => Held[i] # Held[j]
        /\ \A i \in 1..Len(Held) : Held[i] # Null => heap[Held[i]].live

----------------------------------------------------------------------------
(* Claims about the height of the value stack *)

\* The Call whose callee has just returned
ReturnedCall == FromBinary(code, ReturnedSite.at).op

\* The instruction run last is the Pop that Compile for asm::Call puts after
\* the Call of a loaded module (the Call is ten bytes; its address operand
\* is the site of an ExternalFunctionPath relocation)
PoppedCallValue ==
    /\ executed # None /\ executed.op.op = "Pop"
    /\ \E i \in LoadsDone : \E r \in RelocationsOf(i, "ExternalFunctionPath") :
          executed.at = loads[i].base + loads[i].module.relocations[r].site + 9

\* C21: the ops compile_to_value gives for a value leave the value stack
\* exactly one entry higher once they have run, the body of the callee up to
\* its Return included: when a callee returns to its Call, the stack is one
\* higher than it was below the arguments of the Call; so the Pop of a Call
\* statement finds a value, brings the stack back to its height and never
\* underflows.
C21_ValueLeavesOneEntry ==
    /\ (Returned /\ status = Running /\ executed.call_stack # <<>>
          /\ ReturnedSite # None /\ ReturnedCall.op = "Call") =>
          Len(stack) = Len(ReturnedSite.stack) - ReturnedCall.num_args + 1
    /\ PoppedCallValue =>
          /\ status = Running
          /\ Len(stack) = Len(executed.stack) - 1

----------------------------------------------------------------------------
(* Claims about calls inside a module *)

\* The name of a function is the unqualified name p, or ends with "." and p
NamesLocally(function_name, p) ==
    /\ Len(function_name) >= Len(p)
    /\ SubSeq(function_name, Len(function_name) - Len(p) + 1, Len(function_name)) = p
    /\ IF Len(function_name) = Len(p) THEN TRUE
       ELSE function_name[Len(function_name) - Len(p)] = "."

\* C22: a module one of whose functions calls another Defn of the same
\* module by its unqualified name loads successfully into a machine that has
\* no binding for that name: the functions of the module are registered
\* before its relocations are gone through, and after the load the site of
\* the Call holds base + the entry offset of the callee.
C22_OwnFunctionsResolve ==
    \A i \in 1..Len(loads) : \A r \in RelocationsOf(i, "ExternalFunctionPath") :
        \A f \in 1..Len(loads[i].module.functions) :
            (/\ NamesLocally(loads[i].module.functions[f][1],
                             loads[i].module.relocations[r].target.path)
             /\ ~has_symbol(loads[i].before.symbol_table,
                            loads[i].module.relocations[r].target.path)
             /\ loads[i].err # "ConstConstructorNotFound") =>
                /\ loads[i].kind = "ok"
                /\ OperandAt(i, r) = loads[i].base + loads[i].module.functions[f][2]

----------------------------------------------------------------------------
(* Claims about running an If *)

\* The BranchIf run last is the branch of an If of the module of the i-th
\* load: its operand is the site of relocation r, whose target is the Noop
\* of the If
RanBranchOfIf(i, r) ==
    /\ executed # None /\ executed.op.op = "BranchIf"
    /\ Len(executed.stack) > 0
    /\ loads[i].module.emitted # <<>>
    /\ executed.at + 1 = loads[i].base + loads[i].module.relocations[r].site

\* The address of the Noop of that If in the code of the machine
NoopOfIf(i, r) == loads[i].base + loads[i].module.relocations[r].target.addr

\* The value the test of the If had pushed
TestedValue == executed.stack[Len(executed.stack)]

\* C28: when the code compiled for `if { test c } then { B }` is run after
\* loading, B is run if and only if slot c held a non-null pointer at the
\* test: the branch goes on to the first instruction of B when the value is
\* non-null, and straight to the Noop of the If, past every instruction of
\* B, when it is null; either way the value of the test has been popped.
C28_ThenRunsIffNonNull ==
    \A i \in LoadsDone : \A r \in RelocationsOf(i, "InternalAddress") :
        RanBranchOfIf(i, r) =>
            /\ status = Running
            /\ stack = Front(executed.stack)
            /\ FromBinary(code, NoopOfIf(i, r)).kind = "ok"
            /\ FromBinary(code, NoopOfIf(i, r)).op = BNoop
            /\ executed.next < NoopOfIf(i, r)
            /\ TestedValue # Null => ip = executed.next
            /\ TestedValue = Null => ip = NoopOfIf(i, r)
            /\ TestedValue = TopFrame(executed.call_stack).slots[1]

\* The test of a loaded If found a value in slot c, and the then-body is
\* about to run
C28_Witness ==
    \E i \in LoadsDone : \E r \in RelocationsOf(i, "InternalAddress") :
        /\ RanBranchOfIf(i, r)
        /\ loads[i].base > 0
        /\ TestedValue # Null
        /\ ip = executed.next
        /\ FromBinary(code, ip).op = BReturn

\* The test of a loaded If found null in slot c, and the Noop is next
C28_WitnessNull ==
    \E i \in LoadsDone : \E r \in RelocationsOf(i, "InternalAddress") :
        /\ RanBranchOfIf(i, r)
        /\ TestedValue = Null
        /\ ip = NoopOfIf(i, r)

----------------------------------------------------------------------------
(* Claims about the constructors of constants *)

\* The k-th call of a constructor in the i-th load, and whether the
\* constant it was for was bound after it
ConstructorCallOf(i, k) == loads[i].constructed[k]
BoundAfterCall(i, k) ==
    k < Len(loads[i].constructed) \/ loads[i].err # "ConstructorDidNotPush"

\* C24: every constant's constructor is called on a fresh, empty machine,
\* with a frame whose args hold the boxed argument and nothing else; the
\* constant is bound only when the constructor pushed exactly one value, and
\* is bound to that value; a constructor that pushes nothing makes
\* load_consts fail with the error that the constructor did not push a
\* value; no value pushed by the constructor of one constant is seen by, or
\* taken as the result of, the constructor of another.
C24_ConstructorsRunOnFreshMachine ==
    \A i \in 1..Len(loads) : \A k \in 1..Len(loads[i].constructed) :
        /\ ConstructorCallOf(i, k).handed = MachineEmpty
        /\ ConstructorCallOf(i, k).frame.slots = <<>>
        /\ Len(ConstructorCallOf(i, k).frame.args) = 1
        /\ heap[ConstructorCallOf(i, k).frame.args[1]]
              = OptionBox(loads[i].module.consts[k][3])
        /\ BoundAfterCall(i, k) => Len(ConstructorCallOf(i, k).left) = 1
        /\ ConstructorCallOf(i, k).left = ConstructorCallOf(i, k).handed.stack
              => /\ ~BoundAfterCall(i, k)
                 /\ loads[i].kind = "panic"

\* Some constructor path of the module of the i-th load was not bound to a
\* Primitive when load_module was called
SomeConstructorUnresolved(i) ==
    \E k \in 1..Len(loads[i].module.consts) :
        \/ ~has_symbol(loads[i].before.symbol_table, loads[i].module.consts[k][2])
        \/ loads[i].before.symbol_table[loads[i].module.consts[k][2]].t # "Primitive"

\* C30: the constructor paths of a module are all looked up, in the symbol
\* table as it was before the load, before any constructor is called: when
\* one of them is unbound or bound to something that is not a Primitive,
\* load_module fails, and it has called no constructor, bound no constant
\* and appended no code.
C30_ConstructorsResolvedFirst ==
    \A i \in 1..Len(loads) :
        SomeConstructorUnresolved(i) =>
            /\ loads[i].kind = "panic"
            /\ loads[i].err \in {"SymbolNotFound", "ConstConstructorNotFound"}
            /\ loads[i].constructed = <<>>
            /\ loads[i].after_consts = loads[i].before
            /\ i = Len(loads)
            /\ MachineOf(code, call_stack, ip, stack, symbol_table) = loads[i].before

\* A module was loaded whose first constructor path was bound to a
\* Primitive and whose second was not; code was there from a load before
C30_Witness ==
    \E i \in 1..Len(loads) :
        /\ Len(loads[i].module.consts) = 2
        /\ has_symbol(loads[i].before.symbol_table, loads[i].module.consts[1][2])
        /\ loads[i].before.symbol_table[loads[i].module.consts[1][2]].t = "Primitive"
        /\ SomeConstructorUnresolved(i)
        /\ loads[i].kind = "panic"
        /\ loads[i].before.code # <<>>

=============================================================================
